---- MODULE Spec2Model ----
(***************************************************************************)
(* Model of the hybrid local/remote search cache of the Trinity Profiles   *)
(* SDK: DataLoaderService (single-flight guard, cooperative cancellation,  *)
(* page loop), the SyncWorker, and the sync dispatch of TrinityProfilesSDK.*)
(* Every await of the source is a separate step, so that the callers'      *)
(* operations interleave with a run exactly where the event loop allows.   *)
(***************************************************************************)
EXTENDS Integers, Sequences, FiniteSets, TLC

\* ---------------------------------------------------------------- bounds
\* page size of syncAllPages (the source uses 1000; scaled down)
limit == 2
\* largest number of records the remote source holds
MaxRemote == 5
\* number of sync runs (accepted start calls) in one behaviour
MaxRuns == 2
\* number of Worker objects the SDK creates in one behaviour
MaxWorkers == 2

RunIds == 1..MaxRuns
WorkerIds == 1..MaxWorkers
\* loader 0 is the DataLoaderService owned by SearchMethods (in-process);
\* loader r is the DataLoaderService the worker creates for its run r
LoaderIds == 0..MaxRuns

VARIABLES
    remote,            \* number of records held by the remote source
    workerSupported,   \* typeof Worker !== 'undefined'
    enableLocalSearch, \* SdkConfig.enableLocalSearch
    store,             \* oids held in the workspace's object store
    db,                \* IndexedDBService.db # null, per loader
    isLoading,         \* DataLoaderService.isLoading, per loader
    abortController,   \* DataLoaderService.abortController, per loader (0 = null)
    aborted,           \* the AbortControllers whose signal is aborted
    syncComplete,      \* the gating flag set by setSyncComplete
    setBy,             \* the run whose completion last set the flag (0 = none)
    runs,              \* the loadAllData calls: position and locals of each
    nextRun,           \* the next unused run id
    syncWorker,        \* TrinityProfilesSDK.syncWorker (0 = null)
    nextWorker,        \* the next unused worker id
    alive,             \* worker not terminated
    isRunning,         \* SyncWorker.isRunning, per worker
    dataLoader,        \* SyncWorker.dataLoader, per worker (-1 = null)
    outbox,            \* messages posted by a worker, not yet delivered
    lastStart,         \* outcome of the latest startLocalSync call
    lastSearch,        \* outcome of the latest search call
    lastClear,         \* outcome of the latest clearLocalSearchData call
    sdk,               \* the TrinityProfilesSDK instance: its client's
                       \* configuration, method groups and cache hooks
    outcome,           \* the latest constructor, updateAccessToken or
                       \* patients call and its result
    objectStoreNames,  \* object stores of the database 'TrinityProfilesDB'
    tables,            \* records of each workspace's object store, by oid
    idb,               \* IndexedDBService.db # null, per service instance
    opening,           \* the instance waits for its open request
    closed,            \* neither init() nor close() was called yet, or
                       \* close() was called and init() not again since
    last,              \* the latest IndexedDBService call and its outcome
    txs                \* the readwrite transactions on the object store of
                       \* a workspace, in the order of their creation

vars == <<remote, workerSupported, enableLocalSearch, store, db, isLoading,
          abortController, aborted, syncComplete, setBy, runs, nextRun,
          syncWorker, nextWorker, alive, isRunning, dataLoader, outbox,
          lastStart, lastSearch, lastClear, sdk, outcome, objectStoreNames, tables, idb, opening,
          closed, last, txs>>

sdkVars == <<syncWorker, nextWorker, alive, isRunning, dataLoader, outbox>>
envVars == <<remote, workerSupported, enableLocalSearch>>
idbVars == <<objectStoreNames, tables, idb, opening, closed, last, txs>>
syncVars == <<remote, workerSupported, enableLocalSearch, store, db, isLoading,
              abortController, aborted, syncComplete, setBy, runs, nextRun,
              syncWorker, nextWorker, alive, isRunning, dataLoader, outbox,
              lastStart, lastSearch, lastClear, sdk, outcome, txs>>
crudVars == <<sdk, outcome>>

\* ------------------------------------------------------------ collaborators

\* MinifiedMethods.getPage(page, limit): the records of the 1-based page
PageIds(n, page) == { i \in 1..n : (page - 1) * limit < i /\ i <= page * limit }
PageSize(n, page) == Cardinality(PageIds(n, page))

\* error messages
BusyMsg == "Data loading is already in progress"
AbortMsg == "Data loading was aborted"
FetchMsg == "fetch failed"
StoreMsg == "store failed"
NoDbMsg == "Database not initialized"
NotEnabledMsg == "Local search not enabled"

\* LoadProgress
Progress(n, done) == [type |-> "progress", progress |-> n, total |-> n,
                      isComplete |-> done, error |-> ""]
CompleteEvent == [type |-> "complete", progress |-> 0, total |-> 0,
                  isComplete |-> FALSE, error |-> ""]
ErrorEvent(msg) == [type |-> "error", progress |-> 0, total |-> 0,
                    isComplete |-> FALSE, error |-> msg]

NoRun == [pc |-> "none", mode |-> "none", loader |-> 0, worker |-> 0,
          cb |-> FALSE, page |-> 0, totalLoaded |-> 0, patients |-> 0,
          fetches |-> <<>>, stores |-> 0, events |-> <<>>, error |-> "",
          stopped |-> FALSE, fetchAfterStop |-> FALSE, rejected |-> FALSE,
          afterIdleStop |-> FALSE]

\* the callbacks of a run are invoked only when the caller supplied them
Emit(run, ev) == IF run.cb THEN [run EXCEPT !.events = Append(@, ev)] ELSE run

\* -------------------------------------------------- IndexedDBService: data
\* largest oid (the keys of an object store are 1..MaxOid)
MaxOid == 2
\* longest batch handed to batchStore
MaxBatch == 2
\* largest limit handed to searchByPrefix
MaxLimit == 2

\* the workspace ids the IndexedDBService instances are bound to; there is
\* one instance per workspace
Workspaces == {"w1", "w2"}
Oids == 1..MaxOid
\* an oid that is not a valid key (undefined): store.put throws DataError
NoKey == 0

\* strings are sequences of characters
Digits == {"0", "1", "2", "3", "4", "5", "6", "7", "8", "9"}
ToLowerCase(s) == [i \in 1..Len(s) |-> IF s[i] = "J" THEN "j" ELSE s[i]]
StartsWith(s, p) == Len(p) <= Len(s) /\ SubSeq(s, 1, Len(p)) = p

\* LocalMinifiedPatient: an object is a function from the names of the
\* fields it has; fln, mobile and username are optional
Fields == {"fln", "mobile", "username"}
Values(f) == IF f = "mobile" THEN {<<"9", "j">>} ELSE {<<"9", "J">>}
\* the objects handed in carry one of the optional fields; stored records
\* come to carry more through partial updates
Bodies == UNION { { b \in [{g} -> Values(g)] : TRUE } : g \in Fields }
Patient(oid, body) ==
    [f \in DOMAIN body \cup {"oid"} |-> IF f = "oid" THEN oid ELSE body[f]]
\* the records handed in: keyed ones, and one without a valid key
Patients == { Patient(o, b) : o \in Oids, b \in Bodies }
                \cup {Patient(NoKey, [f \in {"fln"} |-> <<"9", "J">>])}
\* Partial<LocalMinifiedPatient>, with or without an oid of its own
Updates == Bodies \cup { Patient(o, b) : o \in Oids, b \in Bodies }
Batches == UNION { [1..n -> Patients] : n \in 0..MaxBatch }
Prefixes == {<<>>, <<"9">>, <<"9", "j">>, <<"9", "J">>, <<"j">>}
Limits == 0..MaxLimit

\* getStoreName
GetStoreName_Shared(ws) == <<"patients_", "w1">>

GetStoreName(ws) == <<"patients_", ws>>

StoreNames == { <<"patients_", w>> : w \in Workspaces }
\* an object store: its records by key; a cursor visits them in key order
NoRecords == [k \in {} |-> Patient(NoKey, [f \in {} |-> <<>>])]

\* error messages
MissingStoreMsg == "NotFoundError"
StillMissingMsg == "Object store still not found after reinitialization"
PatientNotFoundMsg == "Patient not found"
DataErrorMsg == "DataError"
OpenMsg == "open failed"
RequestMsg == "request failed"

\* const isNumeric = /^\d+$/.test(prefix)
IsNumeric(prefix) ==
    Len(prefix) > 0 /\ \A i \in 1..Len(prefix) : prefix[i] \in Digits

\* patient.f?.startsWith(p), after lowering the field when lower is set
FieldStarts(patient, f, p, lower) ==
    /\ f \in DOMAIN patient
    /\ StartsWith(IF lower THEN ToLowerCase(patient[f]) ELSE patient[f], p)

\* the match of the cursor loop of searchByPrefix
Match_AllFields(patient, prefix) ==
    \/ FieldStarts(patient, "mobile", prefix, FALSE)
    \/ FieldStarts(patient, "fln", ToLowerCase(prefix), TRUE)
    \/ FieldStarts(patient, "username", ToLowerCase(prefix), TRUE)

Match(patient, prefix) ==
    IF IsNumeric(prefix)
    THEN \/ FieldStarts(patient, "mobile", prefix, FALSE)
         \/ FieldStarts(patient, "username", ToLowerCase(prefix), TRUE)
    ELSE \/ FieldStarts(patient, "fln", ToLowerCase(prefix), TRUE)
         \/ FieldStarts(patient, "username", ToLowerCase(prefix), TRUE)

\* if (cursor && results.length < limit)
CursorGoesOn_Inclusive(k, n, lim) == k <= MaxOid /\ n <= lim

CursorGoesOn(k, n, lim) == k <= MaxOid /\ n < lim

\* the cursor loop of searchByPrefix from key k on
RECURSIVE Scan(_, _, _, _, _)
Scan(t, k, prefix, lim, results) ==
    IF CursorGoesOn(k, Len(results), lim)
    THEN IF k \in DOMAIN t
         THEN Scan(t, k + 1, prefix, lim,
                   IF Match(t[k], prefix) THEN Append(results, t[k])
                   ELSE results)
         ELSE Scan(t, k + 1, prefix, lim, results)
    ELSE results

\* a put that leaves the record as the only one of the store
Put_Alone(t, patient) == [k \in {patient.oid} |-> patient]

\* store.put(patient): the record is stored under its oid
Put(t, patient) ==
    [k \in DOMAIN t \cup {patient.oid} |->
        IF k = patient.oid THEN patient ELSE t[k]]

\* patients.forEach(patient => store.put(patient)): put throws on a record
\* without a valid key, which ends the loop with the earlier requests queued
RECURSIVE ForEachPut(_, _, _)
ForEachPut(t, batch, i) ==
    IF i > Len(batch) THEN [t |-> t, threw |-> FALSE]
    ELSE IF batch[i].oid = NoKey THEN [t |-> t, threw |-> TRUE]
    ELSE ForEachPut(Put(t, batch[i]), batch, i + 1)

\* the transaction of batchStore: the catch block rejects without aborting
\* the transaction, which then commits the requests already queued; a
\* transaction that fails stores nothing
Transaction(t, batch, commits) ==
    LET r == ForEachPut(t, batch, 1)
    IN  IF r.threw
        THEN [t |-> IF commits THEN r.t ELSE t, ok |-> FALSE,
              err |-> DataErrorMsg]
        ELSE IF commits THEN [t |-> r.t, ok |-> TRUE, err |-> ""]
        ELSE [t |-> t, ok |-> FALSE, err |-> StoreMsg]

\* { ...existingPatient, ...updates, oid }
Merged_NoPin(existing, updates, oid) ==
    [f \in DOMAIN existing \cup DOMAIN updates |->
        IF f \in DOMAIN updates THEN updates[f] ELSE existing[f]]

Merged(existing, updates, oid) ==
    [f \in DOMAIN existing \cup DOMAIN updates \cup {"oid"} |->
        IF f = "oid" THEN oid
        ELSE IF f \in DOMAIN updates THEN updates[f] ELSE existing[f]]

\* store.get(oid): request.result, here a sequence that is empty when the
\* store has no record under oid
GetRequest_Default(t, oid) ==
    IF oid \in DOMAIN t THEN <<t[oid]>>
    ELSE <<Patient(oid, [f \in {} |-> <<>>])>>

GetRequest(t, oid) == IF oid \in DOMAIN t THEN <<t[oid]>> ELSE <<>>

\* store.count()
Count(t) == Cardinality(DOMAIN t)

\* store.clear()
Clear_Kept(t) == t

Clear(t) == NoRecords

\* request.onupgradeneeded: runs only when the database is created (the
\* version is always 1), and creates the store of the opening workspace
OnUpgradeNeeded(names, ws) ==
    IF names = {} /\ GetStoreName(ws) \notin names
    THEN names \cup {GetStoreName(ws)}
    ELSE names

\* the latest call: operation, instance, arguments and result
NoCall == [op |-> "none", ws |-> "w1", ok |-> FALSE, err |-> "", oid |-> 0,
           prefix |-> <<>>, lim |-> 0, batch |-> <<>>,
           upd |-> [f \in {} |-> <<>>], out |-> <<>>, flag |-> FALSE,
           had |-> 0]
Call(op, ws) == [NoCall EXCEPT !.op = op, !.ws = ws]
Failed(call, msg) == [call EXCEPT !.ok = FALSE, !.err = msg]
Done(call) == [call EXCEPT !.ok = TRUE]

IdbInit ==
    /\ objectStoreNames = {}
    /\ tables = [n \in StoreNames |-> NoRecords]
    /\ idb = [w \in Workspaces |-> FALSE]
    /\ opening = [w \in Workspaces |-> FALSE]
    /\ closed = [w \in Workspaces |-> TRUE]
    /\ last = NoCall
    /\ txs = <<>>

\* ----------------------------------------------- IndexedDBService: methods
\* the object store of the instance bound to ws
Table(ws) == tables[GetStoreName(ws)]
\* this.db.transaction([storeName]) finds the store
HasStore(ws) == GetStoreName(ws) \in objectStoreNames
\* why a method other than batchStore fails before it touches the store:
\* the guard on this.db, or transaction() on a store that does not exist
Refusal(ws) == IF ~idb[ws] THEN NoDbMsg
               ELSE IF ~HasStore(ws) THEN MissingStoreMsg ELSE ""

\* the client makes one call at a time and takes its outcome before the next
Idle == last.op = "none"

\* a call that reads: nothing but its outcome changes
Reads(call) ==
    /\ last' = call
    /\ UNCHANGED <<objectStoreNames, tables, idb, opening, closed, syncVars>>

\* a call refused before it reaches the store (its arguments are not noted)
Refused(op, ws) == Reads(Failed(Call(op, ws), Refusal(ws)))

\* a call that leaves the records of ws as t
Writes(ws, t, call) ==
    /\ last' = call
    /\ tables' = [tables EXCEPT ![GetStoreName(ws)] = t]
    /\ UNCHANGED <<objectStoreNames, idb, opening, closed, syncVars>>

\* init(): indexedDB.open is requested; the promise settles in onsuccess or
\* onerror
OpenDatabase(ws) ==
    /\ Idle
    /\ ~opening[ws]
    /\ opening' = [opening EXCEPT ![ws] = TRUE]
    /\ closed' = [closed EXCEPT ![ws] = FALSE]
    /\ last' = Call("open", ws)
    /\ UNCHANGED <<objectStoreNames, tables, idb, syncVars>>

\* request.onupgradeneeded and request.onsuccess of a pending open
OnSuccess(ws) ==
    /\ Idle
    /\ opening[ws]
    /\ objectStoreNames' = OnUpgradeNeeded(objectStoreNames, ws)
    /\ idb' = [idb EXCEPT ![ws] = TRUE]
    /\ opening' = [opening EXCEPT ![ws] = FALSE]
    /\ last' = Done(Call("init", ws))
    /\ UNCHANGED <<tables, closed, syncVars>>

\* request.onerror of a pending open
OnError(ws) ==
    /\ Idle
    /\ opening[ws]
    /\ opening' = [opening EXCEPT ![ws] = FALSE]
    /\ last' = Failed(Call("init", ws), OpenMsg)
    /\ UNCHANGED <<objectStoreNames, tables, idb, closed, syncVars>>

\* close()
Close(ws) ==
    /\ Idle
    /\ idb' = [idb EXCEPT ![ws] = FALSE]
    /\ closed' = [closed EXCEPT ![ws] = TRUE]
    /\ last' = Done(Call("close", ws))
    /\ UNCHANGED <<objectStoreNames, tables, opening, syncVars>>

\* batchStore when its store is missing: this.close(); await this.init();
\* then the store is looked up again. The re-open is taken to settle before
\* the next call on either instance; whether it succeeds is an input
Reinit(ws, batch, opens, commits) ==
    LET call == [Call("batchStore", ws) EXCEPT !.batch = batch]
        names == IF opens THEN OnUpgradeNeeded(objectStoreNames, ws)
                 ELSE objectStoreNames
        tx == Transaction(Table(ws), batch, commits)
    IN  /\ objectStoreNames' = names
        /\ idb' = [idb EXCEPT ![ws] = opens]
        /\ closed' = [closed EXCEPT ![ws] = FALSE]
        /\ IF ~opens
           THEN /\ last' = Failed(Call("batchStore", ws), OpenMsg)
                /\ UNCHANGED tables
           ELSE IF GetStoreName(ws) \notin names
           THEN /\ last' = Failed(Call("batchStore", ws), StillMissingMsg)
                /\ UNCHANGED tables
           ELSE /\ last' = IF tx.ok THEN Done(call) ELSE Failed(call, tx.err)
                /\ tables' = [tables EXCEPT ![GetStoreName(ws)] = tx.t]
        /\ UNCHANGED <<opening, syncVars>>

\* batchStore(patients)
BatchStore(ws, batch, opens, commits) ==
    /\ Idle
    /\ LET call == [Call("batchStore", ws) EXCEPT !.batch = batch]
           tx == Transaction(Table(ws), batch, commits)
       IN  IF ~idb[ws] THEN Refused("batchStore", ws)
           ELSE IF ~HasStore(ws) THEN Reinit(ws, batch, opens, commits)
           ELSE Writes(ws, tx.t, IF tx.ok THEN Done(call) ELSE Failed(call, tx.err))

\* searchByPrefix(prefix, limit)
SearchByPrefix(ws, prefix, lim) ==
    /\ Idle
    /\ LET call == [Call("searchByPrefix", ws) EXCEPT !.prefix = prefix,
                                                      !.lim = lim]
       IN  IF Refusal(ws) # "" THEN Refused("searchByPrefix", ws)
           ELSE Reads(Done([call EXCEPT
                               !.out = Scan(Table(ws), 1, prefix, lim, <<>>)]))

\* getByOid(oid): request.result || null
GetByOid(ws, oid) ==
    /\ Idle
    /\ LET call == [Call("getByOid", ws) EXCEPT !.oid = oid]
       IN  IF Refusal(ws) # "" THEN Refused("getByOid", ws)
           ELSE Reads(Done([call EXCEPT !.out = GetRequest(Table(ws), oid)]))

\* updatePatient(patient)
UpdatePatient(ws, patient, succeeds) ==
    /\ Idle
    /\ LET call == [Call("updatePatient", ws) EXCEPT !.batch = <<patient>>]
       IN  IF Refusal(ws) # "" THEN Refused("updatePatient", ws)
           ELSE IF patient.oid \notin Oids
           THEN Reads(Failed(call, DataErrorMsg))
           ELSE IF ~succeeds THEN Reads(Failed(call, RequestMsg))
           ELSE Writes(ws, Put(Table(ws), patient), Done(call))

\* partialUpdatePatient(oid, updates)
PartialUpdatePatient(ws, oid, updates, succeeds) ==
    /\ Idle
    /\ LET call == [Call("partialUpdatePatient", ws) EXCEPT !.oid = oid,
                                                            !.upd = updates]
           existingPatient == GetRequest(Table(ws), oid)
       IN  IF Refusal(ws) # "" THEN Refused("partialUpdatePatient", ws)
           ELSE IF existingPatient = <<>>
           THEN Reads(Failed(call, PatientNotFoundMsg))
           ELSE IF ~succeeds THEN Reads(Failed(call, RequestMsg))
           ELSE Writes(ws, Put(Table(ws),
                               Merged(existingPatient[1], updates, oid)),
                       Done(call))

\* hasData(): request.result > 0
HasData(ws) ==
    /\ Idle
    /\ LET call == Call("hasData", ws)
       IN  IF Refusal(ws) # "" THEN Refused("hasData", ws)
           ELSE Reads(Done([call EXCEPT !.flag = Count(Table(ws)) > 0]))

\* getLatestUpdateTime(): only whether the call is served is modelled (the
\* timestamps u_ate are not part of the records here)
GetLatestUpdateTime(ws) ==
    /\ Idle
    /\ LET call == Call("getLatestUpdateTime", ws)
       IN  IF Refusal(ws) # "" THEN Refused("getLatestUpdateTime", ws)
           ELSE Reads(Done(call))

\* clearData(); the outcome notes how many records the store held
ClearData(ws, succeeds) ==
    /\ Idle
    /\ LET call == [Call("clearData", ws) EXCEPT !.had = Count(Table(ws))]
       IN  IF Refusal(ws) # "" THEN Refused("clearData", ws)
           ELSE IF ~succeeds THEN Reads(Failed(call, RequestMsg))
           ELSE Writes(ws, Clear(Table(ws)), Done(call))

\* the promise of the latest call has settled and the client has its outcome
Settle ==
    /\ ~Idle
    /\ last' = NoCall
    /\ UNCHANGED <<objectStoreNames, tables, idb, opening, closed, syncVars>>

\* the calls a client makes on the two instances, and the open requests
\* settling
StoreNext ==
    \/ Settle
    \/ \E ws \in Workspaces : OpenDatabase(ws)
    \/ \E ws \in Workspaces : OnSuccess(ws)
    \/ \E ws \in Workspaces : OnError(ws)
    \/ \E ws \in Workspaces : Close(ws)
    \/ \E ws \in Workspaces, b \in Batches, o, c \in BOOLEAN :
          BatchStore(ws, b, o, c)
    \/ \E ws \in Workspaces, p \in Prefixes, l \in Limits :
          SearchByPrefix(ws, p, l)
    \/ \E ws \in Workspaces, o \in Oids : GetByOid(ws, o)
    \/ \E ws \in Workspaces, p \in Patients, s \in BOOLEAN :
          UpdatePatient(ws, p, s)
    \/ \E ws \in Workspaces, o \in Oids, u \in Updates, s \in BOOLEAN :
          PartialUpdatePatient(ws, o, u, s)
    \/ \E ws \in Workspaces : HasData(ws)
    \/ \E ws \in Workspaces : GetLatestUpdateTime(ws)
    \/ \E ws \in Workspaces, s \in BOOLEAN : ClearData(ws, s)

\* ---------------------------------------------- TrinityProfilesSDK: data
\* SdkConfig as handed to the constructor: a string is "" when the field is
\* missing; enableLocalSearch is the environment's setting
Configs == [baseUrl : {"", "url"}, accessToken : {"", "t1"},
            workspaceId : {"", "w1"},
            extraMinifiedPatientFields : {{}, {"u_ate"}}]
\* the tokens handed to updateAccessToken
Tokens == {"", "t2"}
BaseUrlMsg == "baseUrl is required"
WorkspaceIdMsg == "workspaceId is required"
TokenMsg == "Access token cannot be empty"
RemoteMsg == "API request failed"

\* no instance: the constructor has not returned one
NoConfig == [baseUrl |-> "", accessToken |-> "", workspaceId |-> "",
             extraMinifiedPatientFields |-> {}]
NoSdk == [constructed |-> FALSE, config |-> NoConfig,
          groups |-> {}, indexedDBUpdateCallback |-> FALSE,
          indexedDBPartialUpdateCallback |-> FALSE, destroyed |-> FALSE]

\* the instance the constructor builds from a valid configuration: the
\* client, the three method groups, and the update hook of patients
New(config) ==
    [constructed |-> TRUE, config |-> config,
     groups |-> {"patients", "search", "utils"},
     indexedDBUpdateCallback |-> config.workspaceId # "",
     indexedDBPartialUpdateCallback |-> FALSE, destroyed |-> FALSE]

\* CreatePatientData / UpdatePatientData: the fields a call carries
Datas == { [f \in {"mobile"} |-> <<"9">>],
           [f \in {"fn", "ln"} |-> IF f = "fn" THEN <<"J">> ELSE <<"j">>],
           [f \in {"fln", "username"} |->
               IF f = "fln" THEN <<"J">> ELSE <<"j">>],
           [f \in {"email"} |-> <<"e">>] }
NoData == [f \in {} |-> <<>>]
\* response.data of a successful POST: an object with or without an oid, or
\* the text of a body that is not JSON
CreateResponses == { [kind |-> "object", oid |-> o] : o \in Oids \cup {NoKey} }
                       \cup {[kind |-> "text", oid |-> NoKey]}
NoResponse == [kind |-> "none", oid |-> NoKey]
Unknown == <<"U", "n", "k", "n", "o", "w", "n">>
Now == <<"t">>

\* MinifiedPatient: record i of the remote directory; the optional fields
\* differ from record to record
RemoteRecord(i) ==
    Patient(i, [f \in (CASE i % 3 = 1 -> {"fln", "mobile", "username"}
                         [] i % 3 = 2 -> {"fln"}
                         [] OTHER -> {"mobile", "username"})
                  |-> CHOOSE v \in Values(f) : TRUE])

\* a mapping that copies the identifier and the name only
ToLocal_NameOnly(p) ==
    [f \in (DOMAIN p \cap {"oid", "fln"}) \cup {"u_ate"} |->
        IF f = "u_ate" THEN Now ELSE p[f]]

\* patients.map(p => ({ oid: p.oid, u_ate: Date.now(), fln: p.fln,
\*                      mobile: p.mobile, username: p.username }))
ToLocal(p) ==
    [f \in (DOMAIN p \cap {"oid", "fln", "mobile", "username"})
              \cup {"u_ate"} |->
        IF f = "u_ate" THEN Now ELSE p[f]]

\* localPatients of a page of the remote directory of n records
LocalPage(n, page) ==
    [i \in 1..PageSize(n, page) |->
        ToLocal(RemoteRecord((page - 1) * limit + i))]

\* the latest SDK call: operation, arguments, whether it returned or threw,
\* what it returned, and what became of the cache hook
NoOutcome == [op |-> "none", ok |-> FALSE, err |-> "", oid |-> NoKey,
              data |-> NoData, response |-> NoResponse, hook |-> "none",
              had |-> FALSE, config |-> NoConfig, remote |-> "none"]
Returned(call) == [call EXCEPT !.ok = TRUE]
Threw(call, msg) == [call EXCEPT !.ok = FALSE, !.err = msg]

\* the synchronization state of a new SearchMethods, and the environment
LoaderInit ==
    /\ remote \in 0..MaxRemote
    /\ workerSupported \in BOOLEAN
    /\ enableLocalSearch \in BOOLEAN
    /\ store = {}
    /\ db = [l \in LoaderIds |-> FALSE]
    /\ isLoading = [l \in LoaderIds |-> FALSE]
    /\ abortController = [l \in LoaderIds |-> 0]
    /\ aborted = {}
    /\ syncComplete = FALSE
    /\ setBy = 0
    /\ runs = [r \in RunIds |-> NoRun]
    /\ nextRun = 1
    /\ syncWorker = 0
    /\ nextWorker = 1
    /\ alive = [w \in WorkerIds |-> FALSE]
    /\ isRunning = [w \in WorkerIds |-> FALSE]
    /\ dataLoader = [w \in WorkerIds |-> -1]
    /\ outbox = [w \in WorkerIds |-> <<>>]
    /\ lastStart = [mode |-> "none", result |-> "none", whileActive |-> FALSE,
                    idleStop |-> FALSE]
    /\ lastSearch = [result |-> "none", local |-> FALSE, remote |-> FALSE,
                     forceRemote |-> FALSE, complete |-> FALSE]
    /\ lastClear = [result |-> "none", setBy |-> 0]
    /\ outcome = NoOutcome

\* the same over a database that does not exist yet
SyncInit == LoaderInit /\ IdbInit

\* an SDK instance constructed from a configuration with a base URL, a token
\* and a workspace id
Init ==
    /\ SyncInit
    /\ sdk = New([baseUrl |-> "url", accessToken |-> "t1",
                  workspaceId |-> "w1", extraMinifiedPatientFields |-> {}])


\* ------------------------------------------------------- DataLoaderService
\* a run whose loadAllData has not reached its finally block
Active(run) == run.pc \in {"init", "fetch", "store", "syncOk", "syncErr"}
\* a run with a fetchPage or batchStore call outstanding
Executing(run) == run.pc \in {"fetch", "store"}

\* this.abortController?.signal.aborted
SignalAborted(ctrl, ab) == ctrl # 0 /\ ctrl \in ab

\* if (this.isLoading) throw new Error('Data loading is already in progress')
LoadingGuard(flag) == flag

\* a loop that also stops after a full page
LastPage_Inclusive(n) == n <= limit

\* if (patients.length < limit) break
LastPage(n) == n < limit

\* a final report that does not say it is the last
FinalProgress_NotComplete(run) ==
    [Emit(run, Progress(run.totalLoaded, FALSE)) EXCEPT !.pc = "syncOk"]

\* the final onProgress of syncAllPages, after the loop
FinalProgress(run) ==
    [Emit(run, Progress(run.totalLoaded, TRUE)) EXCEPT !.pc = "syncOk"]

\* head of the while loop: the abort check, then the getPage call
LoopHead(run, ctrl, ab) ==
    IF SignalAborted(ctrl, ab)
    THEN [run EXCEPT !.pc = "syncErr", !.error = AbortMsg]
    ELSE [run EXCEPT !.pc = "fetch",
                     !.fetches = Append(@, run.page),
                     !.fetchAfterStop = @ \/ run.stopped]

\* getPage has returned n records: break on an empty page, else batchStore
AfterFetch(run, n, dbOpen) ==
    IF n = 0 THEN FinalProgress(run)
    ELSE IF ~dbOpen THEN [run EXCEPT !.pc = "syncErr", !.error = NoDbMsg]
    ELSE [run EXCEPT !.pc = "store", !.patients = n]

\* batchStore has resolved: count, report, next page, break or loop
AfterStore(run, ctrl, ab) ==
    LET counted == [run EXCEPT !.totalLoaded = @ + run.patients,
                               !.stores = @ + 1]
        reported == Emit(counted, Progress(counted.totalLoaded, FALSE))
        advanced == [reported EXCEPT !.page = @ + 1]
    IN  IF LastPage(run.patients) THEN FinalProgress(advanced)
        ELSE LoopHead(advanced, ctrl, ab)

\* a loadAllData that stays where syncAllPages left it
Notify_Stuck(run) == run

\* a loadAllData that calls onComplete whatever syncAllPages did
Notify_Always(run) ==
    [Emit(run, CompleteEvent) EXCEPT !.pc = "loadOk"]

\* loadAllData after syncAllPages settled: onComplete or onError
Notify(run) ==
    IF run.pc = "syncOk"
    THEN [Emit(run, CompleteEvent) EXCEPT !.pc = "loadOk"]
    ELSE [Emit(run, ErrorEvent(run.error)) EXCEPT !.pc = "loadErr"]

\* the catch block of the caller of loadAllData (startSyncWithoutWorker,
\* SyncWorker.startSync): the error is reported once more; the catch of
\* startSyncWithoutWorker then throws it again, that of the worker does not
CallerCatch(run) ==
    IF run.pc = "loadErr"
    THEN [Emit(run, ErrorEvent(run.error)) EXCEPT
              !.pc = "done", !.rejected = (run.mode = "direct")]
    ELSE [run EXCEPT !.pc = "done"]

\* the events a step added to a run
NewEvents(old, new) == SubSeq(new.events, Len(old.events) + 1, Len(new.events))
Tagged(evs, r) == [i \in 1..Len(evs) |-> [ev |-> evs[i], run |-> r]]

\* the worker of a run is still there to execute it
Runnable(run) == run.mode = "worker" => alive[run.worker]

\* postMessage of what a worker run emitted in this step
Post(r, new) ==
    IF runs[r].mode = "worker"
    THEN outbox' = [outbox EXCEPT ![runs[r].worker] =
                        @ \o Tagged(NewEvents(runs[r], new), r)]
    ELSE UNCHANGED outbox

\* ------------------------------------------------------------ SearchMethods
\* SearchMethods.getDataLoader(): the loader, or null (-1) when local search
\* is not configured
GetDataLoader == IF enableLocalSearch THEN 0 ELSE -1

\* startSyncWithoutWorker(callbacks), up to its first await; base is the
\* runs function it starts from
StartSyncWithoutWorker(cb, base, mode, wasActive) ==
    IF GetDataLoader = -1
    THEN /\ lastStart' = [mode |-> mode, result |-> "notEnabled",
                          whileActive |-> wasActive,
                          idleStop |-> lastStart.idleStop]
         /\ runs' = base
         /\ UNCHANGED <<isLoading, abortController, nextRun>>
    ELSE IF LoadingGuard(isLoading[0])
    THEN /\ lastStart' = [mode |-> mode, result |-> "busy",
                          whileActive |-> wasActive,
                          idleStop |-> lastStart.idleStop]
         /\ runs' = base
         /\ UNCHANGED <<isLoading, abortController, nextRun>>
    ELSE /\ nextRun <= MaxRuns
         /\ lastStart' = [mode |-> mode, result |-> "accepted",
                          whileActive |-> wasActive, idleStop |-> FALSE]
         /\ isLoading' = [isLoading EXCEPT ![0] = TRUE]
         /\ abortController' = [abortController EXCEPT ![0] = nextRun]
         /\ runs' = [base EXCEPT ![nextRun] =
                LoopHead([NoRun EXCEPT !.mode = "direct", !.cb = cb,
                                       !.page = 1,
                                       !.afterIdleStop = lastStart.idleStop],
                         nextRun, aborted)]
         /\ nextRun' = nextRun + 1

DirectActive == \E r \in RunIds : runs[r].mode = "direct" /\ Active(runs[r])
WorkerActive == \E r \in RunIds : /\ runs[r].mode = "worker"
                                  /\ runs[r].pc \in {"posted"} \cup {"init", "fetch", "store", "syncOk", "syncErr", "loadOk", "loadErr"}
                                  /\ alive[runs[r].worker]

\* SearchMethods.initializeLocalSearch(): opens the local store of the
\* in-process loader when local search is configured
OpenLocalStore == [db EXCEPT ![0] = IF enableLocalSearch THEN TRUE ELSE @]

\* TrinityProfilesSDK.initializeLocalSearch
InitializeLocalSearch ==
    /\ db' = OpenLocalStore
    /\ StartSyncWithoutWorker(FALSE, runs, "direct", DirectActive)
    /\ UNCHANGED <<envVars, idbVars, crudVars, lastClear, store, aborted, syncComplete, setBy, sdkVars,
                   lastSearch>>

\* Worker.terminate(): the worker's runs stop where they are
Terminated(w) ==
    [r \in RunIds |->
        IF w # 0 /\ runs[r].worker = w /\ runs[r].pc \notin {"none", "done"}
        THEN [runs[r] EXCEPT !.pc = "killed"] ELSE runs[r]]

\* startSyncWithWorker(callbacks); throws says whether new Worker() throws
StartSyncWithWorker(throws) ==
    LET base == Terminated(syncWorker)
        wasActive == WorkerActive
    IN  /\ IF throws
           THEN /\ StartSyncWithoutWorker(TRUE, base, "fallback", wasActive)
                /\ alive' = [w \in WorkerIds |-> alive[w] /\ w # syncWorker]
                /\ outbox' = [w \in WorkerIds |->
                                IF w = syncWorker THEN <<>> ELSE outbox[w]]
                /\ UNCHANGED <<syncWorker, nextWorker>>
           ELSE /\ nextRun <= MaxRuns
                /\ nextWorker <= MaxWorkers
                /\ syncWorker' = nextWorker
                /\ nextWorker' = nextWorker + 1
                /\ alive' = [w \in WorkerIds |->
                                (alive[w] /\ w # syncWorker) \/ w = nextWorker]
                /\ outbox' = [w \in WorkerIds |->
                                IF w = syncWorker THEN <<>> ELSE outbox[w]]
                /\ runs' = [base EXCEPT ![nextRun] =
                        [NoRun EXCEPT !.pc = "posted", !.mode = "worker",
                                      !.loader = nextRun, !.cb = TRUE,
                                      !.worker = nextWorker, !.page = 1]]
                /\ nextRun' = nextRun + 1
                /\ lastStart' = [mode |-> "worker", result |-> "accepted",
                                 whileActive |-> wasActive,
                                 idleStop |-> lastStart.idleStop]
                /\ UNCHANGED <<isLoading, abortController>>
        /\ UNCHANGED <<envVars, idbVars, crudVars, lastClear, store, db, aborted, syncComplete, setBy,
                       isRunning, dataLoader, lastSearch>>

\* TrinityProfilesSDK.startLocalSync(callbacks)
StartLocalSync ==
    IF workerSupported
    THEN \E throws \in BOOLEAN : StartSyncWithWorker(throws)
    ELSE /\ StartSyncWithoutWorker(TRUE, runs, "direct", DirectActive)
         /\ UNCHANGED <<envVars, idbVars, crudVars, lastClear, store, db, aborted, syncComplete, setBy,
                        sdkVars, lastSearch>>

\* a stop that, finding no token, cancels the one the next run will create
Abort_Ahead(ctrl, ab) == IF ctrl # 0 THEN ab \cup {ctrl} ELSE ab \cup {nextRun}

\* if (this.abortController) this.abortController.abort()
Abort(ctrl, ab) == IF ctrl # 0 THEN ab \cup {ctrl} ELSE ab

\* DataLoaderService.stopLoading() on the in-process loader; with note set,
\* lastStart records a stop that found no run active
Stop(note) ==
    /\ GetDataLoader # -1
    /\ aborted' = Abort(abortController[0], aborted)
    /\ isLoading' = [isLoading EXCEPT ![0] = FALSE]
    /\ runs' = [r \in RunIds |->
                  IF runs[r].mode = "direct" /\ Active(runs[r])
                  THEN [runs[r] EXCEPT !.stopped = TRUE] ELSE runs[r]]
    /\ lastStart' = [lastStart EXCEPT
                        !.idleStop = @ \/ (note /\ ~DirectActive)]
    /\ UNCHANGED <<envVars, idbVars, crudVars, lastClear, store, db, abortController, syncComplete, setBy,
                   nextRun, sdkVars, lastSearch>>

StopLoading == Stop(FALSE)


\* ----------------------------------------------------------- steps of a run
\* await this.minifiedMethods.getPage(page, limit) settles
FetchReturn(r, ok) ==
    LET run == runs[r]
        new == IF ok THEN AfterFetch(run, PageSize(remote, run.page),
                                     db[run.loader])
               ELSE [run EXCEPT !.pc = "syncErr", !.error = FetchMsg]
    IN  /\ run.pc = "fetch"
        /\ Runnable(run)
        /\ runs' = [runs EXCEPT ![r] = new]
        /\ Post(r, new)
        /\ UNCHANGED <<envVars, idbVars, crudVars, lastClear, store, db, isLoading, abortController,
                       aborted, syncComplete, setBy, nextRun, syncWorker,
                       nextWorker, alive, isRunning, dataLoader, lastStart,
                       lastSearch>>

\* a failed batchStore that takes the pages stored before with it
BatchStored_Rollback(st, ids, ok) == IF ok THEN st \cup ids ELSE {}

\* the identifiers in the store after batchStore(localPatients) of a page
BatchStored(st, ids, ok) == IF ok THEN st \cup ids ELSE st

\* the object store the loaders of this SDK write to
SyncTable == GetStoreName(sdk.config.workspaceId)

\* await this.indexedDB.batchStore(localPatients) settles: the transaction
\* commits the whole page, or fails and stores nothing
StoreReturn(r, ok) ==
    LET run == runs[r]
        l == run.loader
        new == IF ok THEN AfterStore(run, abortController[l], aborted)
               ELSE [run EXCEPT !.pc = "syncErr", !.error = StoreMsg]
    IN  /\ run.pc = "store"
        /\ Runnable(run)
        /\ store' = BatchStored(store, PageIds(remote, run.page), ok)
        /\ tables' = [n \in DOMAIN tables |->
                IF n = SyncTable
                THEN Transaction(tables[n], LocalPage(remote, run.page), ok).t
                ELSE tables[n]]
        /\ runs' = [runs EXCEPT ![r] = new]
        /\ Post(r, new)
        /\ UNCHANGED <<envVars, objectStoreNames, idb, opening, closed, last, txs,
                       crudVars, lastClear, db, isLoading, abortController, aborted,
                       syncComplete, setBy, nextRun, syncWorker, nextWorker,
                       alive, isRunning, dataLoader, lastStart, lastSearch>>

\* loadAllData resumes after await this.syncAllPages(callbacks): onComplete
\* or onError, then the finally block
LoadResume(r) ==
    LET run == runs[r]
        l == run.loader
        new == Notify(run)
    IN  /\ run.pc \in {"syncOk", "syncErr"}
        /\ Runnable(run)
        /\ runs' = [runs EXCEPT ![r] = new]
        /\ Post(r, new)
        \* onComplete of startSyncWithoutWorker: this.search.setSyncComplete(true)
        /\ IF run.mode = "direct" /\ new.pc = "loadOk"
           THEN syncComplete' = TRUE /\ setBy' = r
           ELSE UNCHANGED <<syncComplete, setBy>>
        /\ isLoading' = [isLoading EXCEPT ![l] = FALSE]
        /\ abortController' = [abortController EXCEPT ![l] = 0]
        /\ UNCHANGED <<envVars, idbVars, crudVars, lastClear, store, db, aborted, nextRun, syncWorker,
                       nextWorker, alive, isRunning, dataLoader, lastStart,
                       lastSearch>>

\* the caller of loadAllData resumes: catch (report again) and, in the
\* worker, the finally block of startSync
CallerResume(r) ==
    LET run == runs[r]
        w == run.worker
        new == CallerCatch(run)
    IN  /\ run.pc \in {"loadOk", "loadErr"}
        /\ Runnable(run)
        /\ runs' = [runs EXCEPT ![r] = new]
        /\ Post(r, new)
        /\ IF run.mode = "worker"
           THEN /\ isRunning' = [isRunning EXCEPT ![w] = FALSE]
                /\ db' = IF dataLoader[w] # -1
                         THEN [db EXCEPT ![dataLoader[w]] = FALSE] ELSE db
                /\ dataLoader' = [dataLoader EXCEPT ![w] = -1]
           ELSE UNCHANGED <<isRunning, db, dataLoader>>
        /\ UNCHANGED <<envVars, idbVars, crudVars, lastClear, store, isLoading, abortController, aborted,
                       syncComplete, setBy, nextRun, syncWorker, nextWorker,
                       alive, lastStart, lastSearch>>

\* ---------------------------------------------------------------- SyncWorker
\* handleMessage('start') -> startSync(config), up to await dataLoader.init()
WorkerStartSync(r) ==
    LET run == runs[r]
        w == run.worker
    IN  /\ run.pc = "posted"
        /\ alive[w]
        /\ IF isRunning[w]
           THEN /\ runs' = [runs EXCEPT ![r] =
                      [Emit(run, ErrorEvent("Sync already running"))
                          EXCEPT !.pc = "done"]]
                /\ outbox' = [outbox EXCEPT ![w] = Append(@,
                      [ev |-> ErrorEvent("Sync already running"), run |-> r])]
                /\ UNCHANGED <<isRunning, dataLoader>>
           ELSE /\ isRunning' = [isRunning EXCEPT ![w] = TRUE]
                /\ dataLoader' = [dataLoader EXCEPT ![w] = run.loader]
                /\ runs' = [runs EXCEPT ![r].pc = "init"]
                /\ UNCHANGED outbox
        /\ UNCHANGED <<envVars, idbVars, crudVars, lastClear, store, db, isLoading, abortController,
                       aborted, syncComplete, setBy, nextRun, syncWorker,
                       nextWorker, alive, lastStart, lastSearch>>

\* await this.dataLoader.init() settles, then this.dataLoader.loadAllData
\* runs up to its first await; a failed init goes to catch and finally.
\* this.dataLoader is read again after the await: it is the loader of the
\* latest accepted start, or null after a finally block
WorkerInitReturn(r, ok) ==
    LET run == runs[r]
        w == run.worker
        l == dataLoader[w]
        msg == IF ~ok THEN "init failed"
               ELSE IF l = -1 THEN "TypeError"
               ELSE IF LoadingGuard(isLoading[l]) THEN BusyMsg ELSE ""
        failed == [Emit([run EXCEPT !.error = msg],
                        ErrorEvent(msg)) EXCEPT !.pc = "done"]
        started == LoopHead([run EXCEPT !.loader = l], r, aborted)
        opened == IF ok THEN [db EXCEPT ![run.loader] = TRUE] ELSE db
    IN  /\ run.pc = "init"
        /\ alive[w]
        /\ IF msg = ""
           THEN /\ db' = opened
                /\ isLoading' = [isLoading EXCEPT ![l] = TRUE]
                /\ abortController' = [abortController EXCEPT ![l] = r]
                /\ runs' = [runs EXCEPT ![r] = started]
                /\ UNCHANGED <<isRunning, dataLoader, outbox>>
           ELSE /\ runs' = [runs EXCEPT ![r] = failed]
                /\ Post(r, failed)
                /\ isRunning' = [isRunning EXCEPT ![w] = FALSE]
                /\ db' = IF l # -1 THEN [opened EXCEPT ![l] = FALSE]
                         ELSE opened
                /\ dataLoader' = [dataLoader EXCEPT ![w] = -1]
                /\ UNCHANGED <<isLoading, abortController>>
        /\ UNCHANGED <<envVars, idbVars, crudVars, lastClear, store, aborted, syncComplete, setBy, nextRun,
                       syncWorker, nextWorker, alive, lastStart, lastSearch>>

\* a start message posted to a worker that exists already
PostStart(w) ==
    /\ w \in WorkerIds
    /\ alive[w]
    /\ nextRun <= MaxRuns
    /\ runs' = [runs EXCEPT ![nextRun] =
            [NoRun EXCEPT !.pc = "posted", !.mode = "worker",
                          !.loader = nextRun, !.cb = TRUE,
                          !.worker = w, !.page = 1]]
    /\ nextRun' = nextRun + 1
    /\ UNCHANGED <<envVars, idbVars, crudVars, lastClear, store, db, isLoading, abortController,
                   aborted, syncComplete, setBy, sdkVars, lastStart,
                   lastSearch>>

\* handleMessage('stop') -> stopSync()
WorkerStopSync(w) ==
    LET l == IF w \in WorkerIds THEN dataLoader[w] ELSE -1
    IN  /\ w \in WorkerIds
        /\ alive[w]
        /\ IF l # -1
           THEN /\ aborted' = Abort(abortController[l], aborted)
                /\ isLoading' = [isLoading EXCEPT ![l] = FALSE]
                /\ runs' = [r \in RunIds |->
                       IF runs[r].mode = "worker" /\ runs[r].loader = l
                             /\ Active(runs[r]) /\ runs[r].pc # "init"
                       THEN [runs[r] EXCEPT !.stopped = TRUE] ELSE runs[r]]
           ELSE UNCHANGED <<aborted, isLoading, runs>>
        /\ isRunning' = [isRunning EXCEPT ![w] = FALSE]
        /\ UNCHANGED <<envVars, idbVars, crudVars, lastClear, store, db, abortController,
                       syncComplete, setBy, nextRun, syncWorker, nextWorker,
                       alive, dataLoader, outbox, lastStart, lastSearch>>

\* syncWorker.onmessage on the main thread
OnMessage(w) ==
    /\ alive[w]
    /\ outbox[w] # <<>>
    /\ outbox' = [outbox EXCEPT ![w] = Tail(@)]
    /\ IF Head(outbox[w]).ev.type = "complete"
       THEN syncComplete' = TRUE /\ setBy' = Head(outbox[w]).run
       ELSE UNCHANGED <<syncComplete, setBy>>
    /\ UNCHANGED <<envVars, idbVars, crudVars, lastClear, store, db, isLoading, abortController, aborted,
                   runs, nextRun, syncWorker, nextWorker, alive, isRunning,
                   dataLoader, lastStart, lastSearch>>

\* syncWorker.onerror: the worker script could not be loaded or run, which
\* the browser reports by an error event on the Worker object after
\* new Worker() has returned; the handler reports it through onError and the
\* posted start message is never handled
WorkerOnError(r) ==
    LET run == runs[r]
    IN  /\ run.pc = "posted"
        /\ alive[run.worker]
        /\ run.worker = syncWorker
        /\ runs' = [runs EXCEPT ![r] =
               [Emit(run, ErrorEvent("Worker error")) EXCEPT
                   !.pc = "loadFailed"]]
        /\ UNCHANGED <<envVars, idbVars, crudVars, lastClear, store, db,
                       isLoading, abortController, aborted, syncComplete,
                       setBy, nextRun, sdkVars, lastStart, lastSearch>>

\* ------------------------------------------------------------- SearchRouter
\* SearchMethods.searchByPrefix(prefix, limit, forceRemote): the route taken
\* (result), whether the local store was read and whether the remote
\* collaborator was queried
Outcome(result, local, rem, forceRemote) ==
    [result |-> result, local |-> local, remote |-> rem,
     forceRemote |-> forceRemote, complete |-> syncComplete]

\* a router that queries the local store without looking at the sync state
Route_NoGate(emptyPrefix, forceRemote, localFails) ==
    IF emptyPrefix THEN Outcome("required", FALSE, FALSE, forceRemote)
    ELSE IF ~forceRemote /\ enableLocalSearch
    THEN IF localFails \/ ~db[0]
         THEN Outcome("remote", TRUE, TRUE, forceRemote)
         ELSE Outcome("local", TRUE, FALSE, forceRemote)
    ELSE Outcome("remote", FALSE, TRUE, forceRemote)

\* a router that takes no notice of forceRemote
Route_IgnoreForce(emptyPrefix, forceRemote, localFails) ==
    IF emptyPrefix THEN Outcome("required", FALSE, FALSE, forceRemote)
    ELSE IF enableLocalSearch /\ ~syncComplete
    THEN Outcome("stillSyncing", FALSE, FALSE, forceRemote)
    ELSE IF enableLocalSearch
    THEN IF localFails \/ ~db[0]
         THEN Outcome("remote", TRUE, TRUE, forceRemote)
         ELSE Outcome("local", TRUE, FALSE, forceRemote)
    ELSE Outcome("remote", FALSE, TRUE, forceRemote)

\* a router that hands the failure of the local lookup to its caller
Route_Propagate(emptyPrefix, forceRemote, localFails) ==
    IF emptyPrefix THEN Outcome("required", FALSE, FALSE, forceRemote)
    ELSE IF ~forceRemote /\ enableLocalSearch /\ ~syncComplete
    THEN Outcome("stillSyncing", FALSE, FALSE, forceRemote)
    ELSE IF ~forceRemote /\ enableLocalSearch
    THEN IF localFails \/ ~db[0]
         THEN Outcome("localError", TRUE, FALSE, forceRemote)
         ELSE Outcome("local", TRUE, FALSE, forceRemote)
    ELSE Outcome("remote", FALSE, TRUE, forceRemote)

Route(emptyPrefix, forceRemote, localFails) ==
    IF emptyPrefix THEN Outcome("required", FALSE, FALSE, forceRemote)
    ELSE IF ~forceRemote /\ enableLocalSearch /\ ~syncComplete
    THEN Outcome("stillSyncing", FALSE, FALSE, forceRemote)
    ELSE IF ~forceRemote /\ enableLocalSearch
    THEN IF localFails \/ ~db[0]
         THEN Outcome("remote", TRUE, TRUE, forceRemote)
         ELSE Outcome("local", TRUE, FALSE, forceRemote)
    ELSE Outcome("remote", FALSE, TRUE, forceRemote)

\* TrinityProfilesSDK.searchPatientByPrefix
Search(emptyPrefix, forceRemote, localFails) ==
    /\ lastSearch' = Route(emptyPrefix, forceRemote, localFails)
    /\ UNCHANGED <<envVars, idbVars, crudVars, lastClear, store, db, isLoading, abortController, aborted,
                   syncComplete, setBy, runs, nextRun, sdkVars, lastStart>>

\* the sync state after the cache was cleared: reset to uncompleted
SyncStateAfterClear_Kept(complete) == complete

SyncStateAfterClear(complete) == FALSE

\* TrinityProfilesSDK.clearLocalSearchData: SearchMethods clears the
\* workspace's records through its loader and resets the sync state; the
\* outcome notes the run whose completion had last set the flag
ClearLocalSearchData ==
    /\ GetDataLoader # -1
    /\ IF db[0]
       THEN /\ store' = {}
            /\ tables' = [n \in DOMAIN tables |->
                    IF n = SyncTable THEN Clear(tables[n]) ELSE tables[n]]
            /\ syncComplete' = SyncStateAfterClear(syncComplete)
            /\ lastClear' = [result |-> "cleared", setBy |-> setBy]
       ELSE /\ lastClear' = [result |-> NoDbMsg, setBy |-> setBy]
            /\ UNCHANGED <<store, tables, syncComplete>>
    /\ UNCHANGED <<envVars, objectStoreNames, idb, opening, closed, last, txs,
                   crudVars, db, isLoading, abortController,
                   aborted, setBy, runs, nextRun, sdkVars, lastStart,
                   lastSearch>>

\* ------------------------------------------- TrinityProfilesSDK: lifecycle
\* no SDK call is in progress
Quiet == outcome.op = "none"

\* a validation that looks at the base URL only
Validate_BaseUrlOnly(config) ==
    IF config.baseUrl = "" THEN BaseUrlMsg ELSE ""

\* the constructor's validation: the message it throws, "" when it passes
Validate(config) ==
    IF config.baseUrl = "" THEN BaseUrlMsg
    ELSE IF config.workspaceId = "" THEN WorkspaceIdMsg
    ELSE ""

\* new TrinityProfilesSDK(config)
Constructor(config) ==
    /\ Quiet
    /\ ~sdk.constructed
    /\ LET call == [NoOutcome EXCEPT !.op = "constructor", !.config = config]
       IN  IF Validate(config) # ""
           THEN /\ outcome' = Threw(call, Validate(config))
                /\ UNCHANGED sdk
           ELSE /\ outcome' = Returned(call)
                /\ sdk' = New(config)
    /\ UNCHANGED <<envVars, idbVars, lastClear, store, db, isLoading,
                   abortController, aborted, syncComplete, setBy, runs,
                   nextRun, sdkVars, lastStart, lastSearch>>

\* the configuration updateAccessToken builds: base URL, the new token, the
\* workspace id and the timeout of the current one, and nothing else
NewConfig(currentConfig, newToken) ==
    [baseUrl |-> currentConfig.baseUrl, accessToken |-> newToken,
     workspaceId |-> currentConfig.workspaceId,
     extraMinifiedPatientFields |-> {}]

\* the sync-complete flag of the SearchMethods that serves isSyncComplete()
\* after updateAccessToken: that of the old instance, had it been kept
SearchAfterTokenUpdate_Kept(complete) == complete

\* this.search = new SearchMethods(this.client, newConfig): the flag of a
\* new instance
SearchAfterTokenUpdate(complete) == FALSE

\* updateAccessToken(newToken). The method groups are replaced: the new
\* SearchMethods is built from newConfig, which carries no enableLocalSearch,
\* so it has no loader; the loader of the old one is out of the SDK's reach
\* and the runs in flight go on with it, their onComplete setting the flag
\* of whichever SearchMethods is current then
UpdateAccessToken(newToken) ==
    /\ Quiet
    /\ sdk.constructed
    /\ LET call == [NoOutcome EXCEPT !.op = "updateAccessToken",
                                     !.had = syncComplete]
       IN  IF newToken = ""
           THEN /\ outcome' = Threw(call, TokenMsg)
                /\ UNCHANGED <<sdk, enableLocalSearch, syncComplete, setBy>>
           ELSE /\ outcome' = Returned(call)
                /\ sdk' = New(NewConfig(sdk.config, newToken))
                /\ enableLocalSearch' = FALSE
                /\ syncComplete' = SearchAfterTokenUpdate(syncComplete)
                /\ setBy' = IF syncComplete' THEN setBy ELSE 0
    /\ UNCHANGED <<remote, workerSupported, idbVars, lastClear, store, db,
                   isLoading, abortController, aborted, runs, nextRun,
                   sdkVars, lastStart, lastSearch>>

\* the caller has taken the outcome of the latest SDK call
Return ==
    /\ ~Quiet
    /\ outcome' = NoOutcome
    /\ UNCHANGED <<envVars, idbVars, lastClear, sdk, store, db, isLoading,
                   abortController, aborted, syncComplete, setBy, runs,
                   nextRun, sdkVars, lastStart, lastSearch>>

\* ---------------------------------------------------------- PatientMethods
\* the workspace of the SDK's configuration, whose store the loader uses
Workspace == sdk.config.workspaceId

\* [data.fn, data.mn, data.ln].filter(Boolean)
NameParts(data) ==
    LET part(f) == IF f \in DOMAIN data /\ data[f] # <<>>
                   THEN <<data[f]>> ELSE <<>>
    IN  part("fn") \o part("mn") \o part("ln")

\* parts.join(' ')
RECURSIVE Join(_)
Join(parts) ==
    IF parts = <<>> THEN <<>>
    ELSE IF Len(parts) = 1 THEN parts[1]
    ELSE parts[1] \o <<" ">> \o Join(Tail(parts))

\* a || b on strings
OrElse(a, b) == IF a # <<>> THEN a ELSE b
Field(data, f) == IF f \in DOMAIN data THEN data[f] ELSE <<>>

\* create: the LocalMinifiedPatient handed to the update hook; a field set
\* to undefined is a field the record does not have
LocalPatient(data, oid, extra) ==
    LET fullName == OrElse(Field(data, "fln"),
                           OrElse(Join(NameParts(data)), Unknown))
        has == {"oid", "fln"}
                 \cup ({"mobile", "username"} \cap DOMAIN data)
                 \cup (IF "u_ate" \in extra THEN {"u_ate"} ELSE {})
    IN  [f \in has |-> IF f = "oid" THEN oid
                       ELSE IF f = "fln" THEN fullName
                       ELSE IF f = "u_ate" THEN Now
                       ELSE data[f]]

\* update: the Partial<LocalMinifiedPatient> built from the changed fields
PartialUpdates(data, extra) ==
    LET parts == NameParts(data)
        name == IF "fln" \in DOMAIN data THEN <<data["fln"]>>
                ELSE IF {"fn", "mn", "ln"} \cap DOMAIN data # {}
                        /\ Len(parts) > 0
                THEN <<Join(parts)>> ELSE <<>>
        has == ({"mobile", "username"} \cap DOMAIN data)
                 \cup (IF name # <<>> THEN {"fln"} ELSE {})
                 \cup (IF "u_ate" \in extra THEN {"u_ate"} ELSE {})
    IN  [f \in has |-> IF f = "fln" THEN name[1]
                       ELSE IF f = "u_ate" THEN Now
                       ELSE data[f]]

\* a test that calls the hook whenever a field is to be updated
WorthCalling_Any(updates) == Cardinality(DOMAIN updates) > 0

\* Object.keys(updates).length > 1
WorthCalling(updates) == Cardinality(DOMAIN updates) > 1

\* IndexedDBService.updatePatient(patient) on the store of ws: the records
\* it leaves and the error it rejects with ("" when it resolves)
UpdatePatientResult(ws, patient, succeeds) ==
    IF Refusal(ws) # "" THEN [t |-> Table(ws), err |-> Refusal(ws)]
    ELSE IF patient.oid \notin Oids
    THEN [t |-> Table(ws), err |-> DataErrorMsg]
    ELSE IF ~succeeds THEN [t |-> Table(ws), err |-> RequestMsg]
    ELSE [t |-> Put(Table(ws), patient), err |-> ""]

\* IndexedDBService.partialUpdatePatient(oid, updates) on the store of ws
PartialUpdatePatientResult(ws, oid, updates, succeeds) ==
    LET existingPatient == GetRequest(Table(ws), oid)
    IN  IF Refusal(ws) # "" THEN [t |-> Table(ws), err |-> Refusal(ws)]
        ELSE IF existingPatient = <<>>
        THEN [t |-> Table(ws), err |-> PatientNotFoundMsg]
        ELSE IF ~succeeds THEN [t |-> Table(ws), err |-> RequestMsg]
        ELSE [t |-> Put(Table(ws), Merged(existingPatient[1], updates, oid)),
              err |-> ""]

\* a hook whose failure is not caught: the call throws what the hook threw
Hooked_Uncaught(call, result) ==
    IF result.err = "" THEN Returned([call EXCEPT !.hook = "ok"])
    ELSE Threw([call EXCEPT !.hook = "failed"], result.err)

\* try { await callback(...) } catch { console.warn(...) }; return
\* response.data
Hooked(call, result) ==
    Returned([call EXCEPT !.hook = IF result.err = "" THEN "ok"
                                   ELSE "failed"])

\* what is left alone by a patients call
PatientsFrame ==
    UNCHANGED <<envVars, objectStoreNames, idb, opening, closed, last, txs,
                lastClear, sdk, store, db, isLoading, abortController,
                aborted, syncComplete, setBy, runs, nextRun, sdkVars,
                lastStart, lastSearch>>

\* patients.create(data); response is the body of the POST, remoteOk whether
\* the POST succeeds, succeeds whether the store request of the hook does.
\* The hook is the callback the constructor registers: it looks up the
\* loader's IndexedDBService and calls updatePatient
Create(data, response, remoteOk, succeeds) ==
    /\ Quiet /\ Idle
    /\ sdk.constructed
    /\ LET call == [NoOutcome EXCEPT !.op = "create", !.data = data,
                       !.response = response, !.oid = response.oid,
                       !.remote = IF remoteOk THEN "ok" ELSE "failed"]
       IN  IF ~remoteOk
           THEN outcome' = Threw(call, RemoteMsg) /\ UNCHANGED tables
           ELSE IF /\ sdk.indexedDBUpdateCallback
                   /\ response.kind = "object"
                   /\ response.oid # NoKey
           THEN IF GetDataLoader = -1
                THEN /\ outcome' = Returned([call EXCEPT !.hook = "noop"])
                     /\ UNCHANGED tables
                ELSE LET result == UpdatePatientResult(Workspace,
                             LocalPatient(data, response.oid,
                                 sdk.config.extraMinifiedPatientFields),
                             succeeds)
                     IN  /\ outcome' = Hooked(call, result)
                         /\ tables' = [tables EXCEPT
                                ![GetStoreName(Workspace)] = result.t]
           ELSE outcome' = Returned(call) /\ UNCHANGED tables
    /\ PatientsFrame

\* patients.setIndexedDBPartialUpdateCallback(callback), with the callback
\* that does for partialUpdatePatient what the constructor's does for
\* updatePatient
SetIndexedDBPartialUpdateCallback ==
    /\ Quiet
    /\ sdk.constructed
    /\ ~sdk.indexedDBPartialUpdateCallback
    /\ sdk' = [sdk EXCEPT !.indexedDBPartialUpdateCallback = TRUE]
    /\ UNCHANGED <<envVars, idbVars, lastClear, outcome, store, db,
                   isLoading, abortController, aborted, syncComplete, setBy,
                   runs, nextRun, sdkVars, lastStart, lastSearch>>

\* patients.update(id, data)
Update(id, data, remoteOk, succeeds) ==
    /\ Quiet /\ Idle
    /\ sdk.constructed
    /\ LET call == [NoOutcome EXCEPT !.op = "update", !.data = data,
                       !.oid = id,
                       !.remote = IF remoteOk THEN "ok" ELSE "failed",
                       !.had = /\ GetDataLoader # -1
                               /\ Refusal(Workspace) = ""
                               /\ id \in DOMAIN Table(Workspace)]
           updates == PartialUpdates(data,
                          sdk.config.extraMinifiedPatientFields)
       IN  IF ~remoteOk
           THEN outcome' = Threw(call, RemoteMsg) /\ UNCHANGED tables
           ELSE IF sdk.indexedDBPartialUpdateCallback
           THEN IF ~WorthCalling(updates)
                THEN /\ outcome' = Returned([call EXCEPT !.hook = "skipped"])
                     /\ UNCHANGED tables
                ELSE IF GetDataLoader = -1
                THEN /\ outcome' = Returned([call EXCEPT !.hook = "noop"])
                     /\ UNCHANGED tables
                ELSE LET result == PartialUpdatePatientResult(Workspace, id,
                                       updates, succeeds)
                     IN  /\ outcome' = Hooked(call, result)
                         /\ tables' = [tables EXCEPT
                                ![GetStoreName(Workspace)] = result.t]
           ELSE outcome' = Returned(call) /\ UNCHANGED tables
    /\ PatientsFrame

\* patients.delete(id): the DELETE request, and nothing on the local store
Delete(id, remoteOk) ==
    /\ Quiet /\ Idle
    /\ sdk.constructed
    /\ LET call == [NoOutcome EXCEPT !.op = "delete", !.oid = id,
                       !.remote = IF remoteOk THEN "ok" ELSE "failed",
                       !.had = id \in DOMAIN Table(Workspace)]
       IN  outcome' = IF remoteOk THEN Returned(call)
                      ELSE Threw(call, RemoteMsg)
    /\ UNCHANGED tables
    /\ PatientsFrame

\* the steps of the runs in flight
RunStep ==
    \/ \E r \in RunIds, ok \in BOOLEAN : FetchReturn(r, ok)
    \/ \E r \in RunIds, ok \in BOOLEAN : StoreReturn(r, ok)
    \/ \E r \in RunIds : LoadResume(r)
    \/ \E r \in RunIds : CallerResume(r)

\* the synchronization machinery: the SDK's sync dispatch, the loader, the worker
Next ==
    \/ InitializeLocalSearch
    \/ StartLocalSync
    \/ StopLoading
    \/ RunStep
    \/ \E r \in RunIds : WorkerStartSync(r)
    \/ \E r \in RunIds, ok \in BOOLEAN : WorkerInitReturn(r, ok)
    \/ \E w \in WorkerIds : OnMessage(w)

Spec == Init /\ [][Next]_vars

\* the synchronization machinery where Worker is available, with workers
\* whose script fails to load
WorkerInit == Init /\ workerSupported /\ remote <= limit + 1

WorkerNext ==
    \/ Next
    \/ \E r \in RunIds : WorkerOnError(r)

WorkerSpec == WorkerInit /\ [][WorkerNext]_vars

\* SearchMethods.destroy(): the run of the in-process loader is stopped
\* (stopLoading) and, when closes is set, the loader's store connection is
\* closed
SearchDestroy(closes) ==
    IF GetDataLoader # -1
    THEN /\ aborted' = Abort(abortController[0], aborted)
         /\ isLoading' = [isLoading EXCEPT ![0] = FALSE]
         /\ db' = [db EXCEPT ![0] = @ /\ ~closes]
    ELSE UNCHANGED <<aborted, isLoading, db>>

\* TrinityProfilesSDK.destroy(): this.search.destroy(), then the worker, if
\* there is one, is terminated
Destroy(closes) ==
    /\ sdk.constructed
    /\ ~sdk.destroyed
    /\ sdk' = [sdk EXCEPT !.destroyed = TRUE]
    /\ SearchDestroy(closes)
    /\ runs' = [r \in RunIds |->
           IF GetDataLoader # -1 /\ runs[r].mode = "direct"
                 /\ Active(runs[r])
           THEN [runs[r] EXCEPT !.stopped = TRUE]
           ELSE Terminated(syncWorker)[r]]
    /\ alive' = [w \in WorkerIds |-> alive[w] /\ w # syncWorker]
    /\ outbox' = [w \in WorkerIds |->
                    IF w = syncWorker THEN <<>> ELSE outbox[w]]
    /\ syncWorker' = 0
    /\ UNCHANGED <<envVars, idbVars, outcome, lastClear, store,
                   abortController, syncComplete, setBy, nextRun, nextWorker,
                   isRunning, dataLoader, lastStart, lastSearch>>

\* the synchronization machinery of an SDK instance up to its teardown and
\* after it; a destroyed instance is not called again
DestroyInit == Init /\ remote <= limit + 1

DestroyNext ==
    \/ ~sdk.destroyed /\ InitializeLocalSearch
    \/ ~sdk.destroyed /\ StartLocalSync
    \/ ~sdk.destroyed /\ StopLoading
    \/ \E closes \in BOOLEAN : Destroy(closes)
    \/ RunStep
    \/ \E r \in RunIds : WorkerStartSync(r)
    \/ \E r \in RunIds, ok \in BOOLEAN : WorkerInitReturn(r, ok)
    \/ \E w \in WorkerIds : OnMessage(w)

DestroySpec == DestroyInit /\ [][DestroyNext]_vars

\* one background worker and the messages it can be sent: start and stop in
\* any order, each handled when it is delivered
MessageNext ==
    \/ StartLocalSync
    \/ PostStart(syncWorker)
    \/ WorkerStopSync(syncWorker)
    \/ RunStep
    \/ \E r \in RunIds : WorkerStartSync(r)
    \/ \E r \in RunIds, ok \in BOOLEAN : WorkerInitReturn(r, ok)
    \/ \E w \in WorkerIds : OnMessage(w)

MessageSpec == WorkerInit /\ [][MessageNext]_vars

\* the in-process synchronization under the assumption that every fetchPage
\* and batchStore call returns and every continuation of a run is resumed
RunStepOf(r) ==
    \/ \E ok \in BOOLEAN : FetchReturn(r, ok)
    \/ \E ok \in BOOLEAN : StoreReturn(r, ok)
    \/ LoadResume(r)
    \/ CallerResume(r)

LiveNext ==
    \/ InitializeLocalSearch
    \/ StartLocalSync
    \/ StopLoading
    \/ RunStep

Fairness == \A r \in RunIds : WF_vars(RunStepOf(r))

LiveInit == Init /\ ~workerSupported

LiveSpec == LiveInit /\ [][LiveNext]_vars /\ Fairness

\* the in-process synchronization with its stops observed
StopNext ==
    \/ InitializeLocalSearch
    \/ StartLocalSync
    \/ Stop(TRUE)
    \/ RunStep

StopSpec == LiveInit /\ [][StopNext]_vars

\* ------------------------------------------- IndexedDBService: transactions
\* most transactions created in one behaviour
MaxTx == 2

\* a transaction: the method that created it, its arguments, the request it
\* is to make next, the result of its get request, the records of the store
\* when it was created, and whether an earlier one was unfinished then
NoTx == [op |-> "none", oid |-> NoKey, upd |-> [f \in {} |-> <<>>],
         batch |-> <<>>, pc |-> "done", got |-> <<>>, base |-> NoRecords,
         overlap |-> FALSE]

Live(tx) == tx.pc # "done"

\* transactions that run whenever they have a request to make
CanRun_Unordered(q, i) == TRUE

\* a readwrite transaction starts when no transaction created before it on
\* the same object store is unfinished
CanRun(q, i) == \A j \in 1..(i - 1) : ~Live(q[j])

TxFrame ==
    UNCHANGED <<envVars, crudVars, sdkVars, store, db, isLoading,
                abortController, aborted, syncComplete, setBy, runs, nextRun,
                lastStart, lastSearch, lastClear, objectStoreNames, idb,
                opening, closed, last>>

\* this.db.transaction([storeName], 'readwrite') of a method call
Begin(tx) ==
    /\ Len(txs) < MaxTx
    /\ txs' = Append(txs, [tx EXCEPT
                  !.base = tables[GetStoreName("w1")],
                  !.overlap = \E j \in 1..Len(txs) : Live(txs[j])])
    /\ UNCHANGED tables
    /\ TxFrame

\* the next request of transaction i is carried out: the get of
\* partialUpdatePatient, the put its onsuccess handler makes in the same
\* transaction, or the puts of batchStore and updatePatient; a transaction
\* without further requests commits
TxStep(i) ==
    LET tx == txs[i]
        t == tables[GetStoreName("w1")]
        got == GetRequest(t, tx.oid)
    IN  /\ Live(tx)
        /\ CanRun(txs, i)
        /\ IF tx.pc = "get"
           THEN /\ txs' = [txs EXCEPT ![i] =
                       [tx EXCEPT !.got = got,
                                  !.pc = IF got = <<>> THEN "done"
                                         ELSE "put"]]
                /\ UNCHANGED tables
           ELSE /\ txs' = [txs EXCEPT ![i] = [tx EXCEPT !.pc = "done"]]
                /\ tables' = [tables EXCEPT ![GetStoreName("w1")] =
                       IF tx.op = "partialUpdatePatient"
                       THEN Put(t, Merged(tx.got[1], tx.upd, tx.oid))
                       ELSE Transaction(t, tx.batch, TRUE).t]
        /\ TxFrame

\* the writers of one object store, called while earlier calls are pending,
\* over a database left by an earlier session: partialUpdatePatient up to
\* store.get(oid), batchStore and updatePatient up to their put requests
TxNext ==
    \/ \E o \in Oids, u \in Bodies :
          Begin([NoTx EXCEPT !.op = "partialUpdatePatient", !.oid = o,
                             !.upd = u, !.pc = "get"])
    \/ \E b \in Batches :
          Begin([NoTx EXCEPT !.op = "batchStore", !.batch = b, !.pc = "put"])
    \/ \E p \in Patients :
          Begin([NoTx EXCEPT !.op = "updatePatient", !.batch = <<p>>,
                             !.pc = "put"])
    \/ \E i \in 1..Len(txs) : TxStep(i)

\* the in-process synchronization over a database left by an earlier
\* session: the object store of the workspace exists and may hold a record
\* the remote directory also has and one it does not have
PriorTables ==
    UNION { { [k \in K |-> Patient(k, b[k])] : b \in [K -> Bodies] } :
            K \in SUBSET {1, MaxRemote + 1} }

PriorIdb ==
    /\ objectStoreNames = {GetStoreName("w1")}
    /\ tables \in { [n \in StoreNames |->
                        IF n = GetStoreName("w1") THEN t ELSE NoRecords] :
                    t \in PriorTables }
    /\ idb = [w \in Workspaces |-> FALSE]
    /\ opening = [w \in Workspaces |-> FALSE]
    /\ closed = [w \in Workspaces |-> TRUE]
    /\ last = NoCall
    /\ txs = <<>>

IngestInit ==
    /\ LoaderInit
    /\ PriorIdb
    /\ ~workerSupported
    /\ remote <= limit + 1
    /\ sdk = New([baseUrl |-> "url", accessToken |-> "t1",
                  workspaceId |-> "w1", extraMinifiedPatientFields |-> {}])

TxInit == IngestInit /\ remote = 0 /\ ~enableLocalSearch

TxSpec == TxInit /\ [][TxNext]_vars

IngestNext ==
    \/ InitializeLocalSearch
    \/ StartLocalSync
    \/ RunStep

IngestSpec == IngestInit /\ [][IngestNext]_vars

\* the search router over an in-process synchronization
SearchInit == Init /\ ~workerSupported /\ remote <= limit + 1

SearchNext ==
    \/ InitializeLocalSearch
    \/ StartLocalSync
    \/ RunStep
    \/ \E e, f, lf \in BOOLEAN : Search(e, f, lf)
    \/ ClearLocalSearchData

SearchSpec == SearchInit /\ [][SearchNext]_vars

\* the local store on its own: two IndexedDBService instances, bound to
\* different workspaces, over the one database of the origin
StoreInit == Init /\ remote = 0 /\ ~workerSupported /\ ~enableLocalSearch

StoreSpec == StoreInit /\ [][StoreNext]_vars

\* the life of one SDK instance, from the constructor on, over an in-process
\* synchronization
SdkInit == SyncInit /\ sdk = NoSdk /\ ~workerSupported /\ remote <= limit + 1

SdkNext ==
    \/ \E c \in Configs : Constructor(c)
    \/ \E t \in Tokens : UpdateAccessToken(t)
    \/ Return
    \/ sdk.constructed /\ Quiet /\ InitializeLocalSearch
    \/ sdk.constructed /\ Quiet /\ StartLocalSync
    \/ sdk.constructed /\ Quiet /\ RunStep
    \/ sdk.constructed /\ Quiet /\ ClearLocalSearchData

SdkSpec == SdkInit /\ [][SdkNext]_vars

\* the patients method group of a constructed SDK over the local store of
\* its workspace: the store is opened, filled by synchronization, maintained
\* by the hooks, and cleared
SyncBatches == { <<p>> : p \in Patients }
PatientInit ==
    /\ SyncInit
    /\ remote = 0
    /\ ~workerSupported
    /\ sdk \in { New(c) : c \in { d \in Configs : Validate(d) = "" } }

PatientNext ==
    \/ Return
    \/ Settle
    \/ SetIndexedDBPartialUpdateCallback
    \/ \E t \in Tokens : UpdateAccessToken(t)
    \/ Quiet /\ GetDataLoader # -1 /\ OpenDatabase(Workspace)
    \/ OnSuccess(Workspace)
    \/ Quiet /\ GetDataLoader # -1
          /\ \E b \in SyncBatches, c \in BOOLEAN :
                BatchStore(Workspace, b, FALSE, c)
    \/ Quiet /\ GetDataLoader # -1
          /\ \E ok \in BOOLEAN : ClearData(Workspace, ok)
    \/ \E d \in Datas, r \in CreateResponses, ok, s \in BOOLEAN :
          Create(d, r, ok, s)
    \/ \E o \in Oids, d \in Datas, ok, s \in BOOLEAN : Update(o, d, ok, s)
    \/ \E o \in Oids, ok \in BOOLEAN : Delete(o, ok)

PatientSpec == PatientInit /\ [][PatientNext]_vars

TypeOK ==
    /\ remote \in 0..MaxRemote
    /\ nextRun \in 1..MaxRuns + 1
    /\ nextWorker \in 1..MaxWorkers + 1
    /\ store \subseteq 1..MaxRemote


\* ------------------------------------------------------------------- claims
\* C1: on one DataLoaderService at most one sync run is executing at any
\* time: fetchPage or batchStore is never outstanding for two runs at once.
C1_SingleFlight ==
    \A r1, r2 \in RunIds :
        (/\ r1 # r2
         /\ runs[r1].mode = "direct" /\ runs[r2].mode = "direct"
         /\ runs[r1].loader = runs[r2].loader)
        => ~(Executing(runs[r1]) /\ Executing(runs[r2]))


\* C2: a start call made while a run of the in-process loader is active is
\* rejected with the busy error and starts no run.
C2_BusyRejected ==
    (lastStart.mode = "direct" /\ lastStart.whileActive)
        => lastStart.result = "busy"

\* C3: in worker mode a startLocalSync call made while the previous run is
\* still active is rejected as busy, and the active run is not terminated.
C3_WorkerBusy ==
    /\ (lastStart.mode \in {"worker", "fallback"} /\ lastStart.whileActive)
          => lastStart.result = "busy"
    /\ \A r \in RunIds : runs[r].pc # "killed"

\* C5: whenever a sync run is active the sync-complete flag is false.
C5_NotCompleteWhileRunning ==
    (\E r \in RunIds : Active(runs[r]) /\ Runnable(runs[r])) => ~syncComplete


\* C4: a search with forceRemote = false, local search configured and the
\* sync not complete fails with the still-syncing condition and reads
\* neither the local store nor the remote service.
C4_StillSyncing ==
    (/\ lastSearch.result \notin {"none", "required"}
     /\ ~lastSearch.forceRemote
     /\ enableLocalSearch
     /\ ~lastSearch.complete)
        => /\ lastSearch.result = "stillSyncing"
           /\ ~lastSearch.local
           /\ ~lastSearch.remote

\* a search was refused while a started run had not completed
C4_Witness ==
    /\ lastSearch.result = "stillSyncing"
    /\ \E r \in RunIds : Active(runs[r])


\* the pages a run fetched that held records
NonEmptyFetched(run) ==
    { i \in 1..Len(run.fetches) : PageSize(remote, run.fetches[i]) > 0 }

\* the run ended successfully: no error, the terminating (empty or short)
\* page was fetched and every non-empty fetched page was committed
Succeeded(run) ==
    /\ run.error = ""
    /\ run.pc \in {"loadOk", "done"}
    /\ Len(run.fetches) > 0
    /\ PageSize(remote, run.fetches[Len(run.fetches)]) < limit
    /\ run.stores = Cardinality(NonEmptyFetched(run))

\* C6: the sync-complete flag is set only by a run that has ended
\* successfully; a run that failed or was aborted never sets it.
C6_CompleteOnlyOnSuccess ==
    [][(syncComplete' /\ (~syncComplete \/ setBy' # setBy))
          => (setBy' \in RunIds /\ Succeeded(runs'[setBy']))]_vars

\* the flag was set by a worker run of two stored pages while another run
\* had ended in an error
C6_Witness ==
    /\ syncComplete
    /\ setBy \in RunIds
    /\ runs[setBy].stores >= 2
    /\ \E r \in RunIds : runs[r].error # "" /\ runs[r].pc = "done"

\* C7: once stop has been requested for an active run, that run issues no
\* new fetchPage call.
C7_NoFetchAfterStop == \A r \in RunIds : ~runs[r].fetchAfterStop

HasEvent(run, ev) == \E i \in 1..Len(run.events) : run.events[i] = ev
HasComplete(run) == HasEvent(run, CompleteEvent)
HasFinalProgress(run) ==
    \E i \in 1..Len(run.events) :
        run.events[i].type = "progress" /\ run.events[i].isComplete

\* C8: a run for which stop was requested while it was active ends with the
\* aborted outcome reported through onError; it never invokes onComplete and
\* never emits a progress report with isComplete = true.
C8_StoppedRunAborts ==
    \A r \in RunIds :
        (runs[r].stopped /\ runs[r].cb) =>
            /\ ~HasComplete(runs[r])
            /\ ~HasFinalProgress(runs[r])
            /\ runs[r].pc = "done" => HasEvent(runs[r], ErrorEvent(AbortMsg))

\* the first short page of a remote source of n records
LastPageNo(n) == (n \div limit) + 1

\* C9: an uncancelled, error-free run fetches pages 1..k in order, k the
\* first page shorter than the page size, stores once per non-empty page
\* and ends with cumulative progress equal to the sum of the page sizes.
C9_Pagination ==
    \A r \in RunIds :
        (/\ runs[r].pc \in {"syncOk", "loadOk", "done"}
         /\ runs[r].error = ""
         /\ ~runs[r].stopped)
        => /\ runs[r].fetches = [i \in 1..LastPageNo(remote) |-> i]
           /\ runs[r].stores =
                Cardinality({p \in 1..LastPageNo(remote) : PageSize(remote, p) > 0})
           /\ runs[r].totalLoaded = remote

\* two full pages and a short one: 3 fetches, 3 stores, all records counted
C9_Witness ==
    \E r \in RunIds :
        /\ runs[r].pc = "done" /\ runs[r].error = "" /\ ~runs[r].stopped
        /\ runs[r].fetches = <<1, 2, 3>>
        /\ runs[r].stores = 3
        /\ runs[r].totalLoaded = 2 * limit + 1

\* the records a run has upserted after its first i stores
Upserted(run, i) == UNION { PageIds(remote, run.fetches[j]) : j \in 1..i }

\* C10: in a successful run the progress reports carry a non-decreasing
\* cumulative count, equal to the records upserted so far, with total =
\* progress; exactly one report has isComplete = true, it is the last report
\* and it precedes the completion notification.
C10_ProgressReports ==
    \A r \in RunIds :
        (runs[r].cb /\ runs[r].error = "" /\ runs[r].pc \in {"loadOk", "done"})
        => LET ev == runs[r].events
               n == Len(ev)
           IN  /\ n >= 2
               /\ ev[n] = CompleteEvent
               /\ \A i \in 1..n - 1 :
                    /\ ev[i].type = "progress"
                    /\ ev[i].total = ev[i].progress
                    /\ ev[i].isComplete <=> i = n - 1
                    /\ i < n - 1 =>
                         /\ ev[i].progress = Cardinality(Upserted(runs[r], i))
                         /\ ev[i].progress <= ev[i + 1].progress
               /\ ev[n - 1].progress = runs[r].totalLoaded

\* a successful run of two stored pages: two reports, the final one, complete
C10_Witness ==
    \E r \in RunIds :
        /\ runs[r].cb /\ runs[r].error = "" /\ runs[r].pc = "done"
        /\ Len(runs[r].events) = 4
        /\ runs[r].events[3].isComplete

\* ------------------------------------------------ claims: IndexedDBService
\* the partition of a workspace: the records of its own object store
Partition(ws) == tables[<<"patients_", ws>>]
\* the latest call was op, reached the store and succeeded
Served(op) == last.op = op /\ last.ok
\* s starts with p when case is ignored
StartsWithIgnoringCase(s, p) == StartsWith(ToLowerCase(s), ToLowerCase(p))
AllDigits(p) == p # <<>> /\ \A i \in 1..Len(p) : p[i] \in Digits
SomeNonDigit(p) == \E i \in 1..Len(p) : p[i] \notin Digits
MobileStarts(r, p) == "mobile" \in DOMAIN r /\ StartsWith(r.mobile, p)
UsernameStarts(r, p) ==
    "username" \in DOMAIN r /\ StartsWithIgnoringCase(r.username, p)
NameStarts(r, p) == "fln" \in DOMAIN r /\ StartsWithIgnoringCase(r.fln, p)

\* C11: every record searchByPrefix returns for an all-digit prefix has a
\* mobile that starts with the prefix or a username that starts with it when
\* case is ignored (the name does not count); every record it returns for a
\* prefix with a non-digit has a name or a username that starts with the
\* prefix when case is ignored (the mobile does not count).
C11_FieldPolicy ==
    Served("searchByPrefix") =>
        \A i \in 1..Len(last.out) :
            LET r == last.out[i]
                p == last.prefix
            IN  /\ AllDigits(p) => MobileStarts(r, p) \/ UsernameStarts(r, p)
                /\ SomeNonDigit(p) => NameStarts(r, p) \/ UsernameStarts(r, p)

\* a search for digits that returns a record and passes over a stored record
\* of which only the name starts with the digits
C11_Witness ==
    /\ Served("searchByPrefix")
    /\ AllDigits(last.prefix)
    /\ last.out # <<>>
    /\ \E k \in DOMAIN Partition(last.ws) :
          /\ NameStarts(Partition(last.ws)[k], last.prefix)
          /\ \A i \in 1..Len(last.out) : last.out[i].oid # k

\* the keys of the records of t that match the prefix
Matching(t, p) == { k \in DOMAIN t : Match(t[k], p) }

\* C12: searchByPrefix(prefix, limit) returns the first min(limit, m) of the
\* m matching records in key order, each once: never more than limit, and
\* all of them when m <= limit.
C12_FirstMatches ==
    Served("searchByPrefix") =>
        LET t == Partition(last.ws)
            M == Matching(t, last.prefix)
            n == IF last.lim < Cardinality(M) THEN last.lim
                 ELSE Cardinality(M)
        IN  /\ Len(last.out) = n
            /\ \A i \in 1..n :
                  \E k \in M : /\ Cardinality({ j \in M : j < k }) = i - 1
                               /\ last.out[i] = t[k]

\* a search cut short by its limit: more records match than are returned
C12_Witness ==
    /\ Served("searchByPrefix")
    /\ last.lim >= 1
    /\ Len(last.out) = last.lim
    /\ Cardinality(Matching(Partition(last.ws), last.prefix)) > last.lim

\* the step is a call of op (the outcome of the call is in last')
Calls(op) == last.op = "none" /\ last'.op = op

\* C13: partialUpdatePatient(id, updates) on an existing record leaves every
\* field not named in updates as it was, sets every field named in updates,
\* keeps the record stored under id with oid = id whatever oid updates
\* carries, and changes no other record of any store.
C13_MergeKeepsRest ==
    [][(Calls("partialUpdatePatient") /\ last'.ok) =>
         LET name == <<"patients_", last'.ws>>
             id == last'.oid
             updates == last'.upd
             old == tables[name][id]
             new == tables'[name][id]
         IN  /\ id \in DOMAIN tables[name]
             /\ DOMAIN tables'[name] = DOMAIN tables[name]
             /\ new.oid = id
             /\ \A f \in DOMAIN updates \ {"oid"} :
                   f \in DOMAIN new /\ new[f] = updates[f]
             /\ \A f \in Fields \ DOMAIN updates :
                   /\ f \in DOMAIN new <=> f \in DOMAIN old
                   /\ f \in DOMAIN old => new[f] = old[f]
             /\ \A k \in DOMAIN tables[name] \ {id} :
                   tables'[name][k] = tables[name][k]
             /\ \A n \in StoreNames \ {name} : tables'[n] = tables[n]]_vars

\* a merge whose updates carry another oid, into a record that keeps a field
\* the updates do not name, next to a second record
C13_Witness ==
    /\ Served("partialUpdatePatient")
    /\ "oid" \in DOMAIN last.upd
    /\ last.upd.oid # last.oid
    /\ DOMAIN Partition(last.ws) = Oids
    /\ \E f \in Fields :
          f \in DOMAIN Partition(last.ws)[last.oid] /\ f \notin DOMAIN last.upd

\* C14: partialUpdatePatient(id, updates) for an id without a record fails
\* with the not-found error and leaves every store as it was: no record is
\* created.
C14_NotFound ==
    [][(/\ Calls("partialUpdatePatient")
        /\ idb[last'.ws]
        /\ <<"patients_", last'.ws>> \in objectStoreNames
        /\ last'.oid \notin DOMAIN tables[<<"patients_", last'.ws>>])
       => /\ ~last'.ok
          /\ last'.err = PatientNotFoundMsg
          /\ tables' = tables]_vars

\* a partial update refused as not found in a store that holds another record
C14_Witness ==
    /\ last.op = "partialUpdatePatient"
    /\ last.err = PatientNotFoundMsg
    /\ last.oid \notin DOMAIN Partition(last.ws)
    /\ Partition(last.ws) # NoRecords

\* the record a batch leaves under key k: the last one it carries for k
LastFor(batch, k) ==
    LET I == { i \in 1..Len(batch) : batch[i].oid = k }
    IN  batch[CHOOSE i \in I : \A j \in I : j <= i]

\* C15: batchStore(records) is atomic and overwriting: after success every
\* record of the batch is stored under its oid (the last one for an oid that
\* occurs twice) and no other record changed; after failure none of the
\* records of the batch is stored, so no part of a batch is ever visible.
C15_AtomicBatch ==
    [][Calls("batchStore") =>
         LET name == <<"patients_", last'.ws>>
             batch == last'.batch
             keys == { batch[i].oid : i \in 1..Len(batch) }
         IN  IF last'.ok
             THEN /\ DOMAIN tables'[name] = DOMAIN tables[name] \cup keys
                  /\ \A k \in keys : tables'[name][k] = LastFor(batch, k)
                  /\ \A k \in DOMAIN tables[name] \ keys :
                        tables'[name][k] = tables[name][k]
             ELSE tables' = tables]_vars

\* C16: after init() completes on an instance, the object store of its
\* workspace exists in the database, whichever instance created the database.
C16_InitMakesTable ==
    (last.op = "init" /\ last.ok) => <<"patients_", last.ws>> \in objectStoreNames

\* C17: a call on the instance of one workspace changes no record of another
\* workspace's partition, and what it returns comes from its own partition:
\* the records it returns are records of its partition, and hasData tells
\* whether its own partition holds a record.
C17_Isolation ==
    [][(last.op = "none" /\ last'.op # "none") =>
         LET ws == last'.ws
             own == tables[<<"patients_", ws>>]
         IN  /\ \A w \in Workspaces \ {ws} :
                   tables'[<<"patients_", w>>] = tables[<<"patients_", w>>]
             /\ \A i \in 1..Len(last'.out) :
                   \E k \in DOMAIN own : own[k] = last'.out[i]
             /\ (last'.op = "hasData" /\ last'.ok) =>
                   (last'.flag <=> own # NoRecords)]_vars

\* batchStore on an initialized instance while the partition of the other
\* workspace holds records
C17_Witness ==
    /\ last.op = "batchStore"
    /\ idb[last.ws]
    /\ \E w \in Workspaces \ {last.ws} : Partition(w) # NoRecords

\* the operations on the store
StoreOps == {"batchStore", "searchByPrefix", "getByOid", "updatePatient",
             "partialUpdatePatient", "hasData", "getLatestUpdateTime",
             "clearData"}

\* C18: after close(), and before the first init(), every store operation
\* fails with the not-initialized error and changes nothing, until init() is
\* called again.
C18_ClosedRefuses ==
    [][(last.op = "none" /\ last'.op \in StoreOps /\ closed[last'.ws]) =>
         /\ ~last'.ok
         /\ last'.err = NoDbMsg
         /\ tables' = tables]_vars

\* C19: after clearData() the partition is empty: hasData() is false and
\* searchByPrefix returns no record, whatever the prefix, for as long as the
\* partition stays empty.
C19_ClearEmpties ==
    /\ Served("clearData") => Partition(last.ws) = NoRecords
    /\ (Served("hasData") /\ Partition(last.ws) = NoRecords) => ~last.flag
    /\ (Served("searchByPrefix") /\ Partition(last.ws) = NoRecords)
          => last.out = <<>>

\* a clearData that emptied a full store
C19_Witness == Served("clearData") /\ last.had = MaxOid

\* ------------------------------------------------- claims: clearing the cache
\* no run has completed since the latest clearLocalSearchData cleared the cache
ClearedSince == lastClear.result = "cleared" /\ setBy = lastClear.setBy

\* C20: once clearLocalSearchData has cleared the cache the sync-complete
\* flag is false, and a local search is refused as still syncing, until a
\* later run completes.
C20_ClearResets ==
    ClearedSince =>
        /\ ~syncComplete
        /\ Route(FALSE, FALSE, FALSE).result = "stillSyncing"

\* the cache was cleared after a run had completed and set the flag
C20_Witness == ClearedSince /\ lastClear.setBy \in RunIds

\* ------------------------------------------------ claims: the SDK instance
\* the groups and hooks an instance exposes
MethodGroups == {"patients", "search", "utils"}
NothingCreated ==
    /\ ~sdk.constructed
    /\ sdk.groups = {}
    /\ ~sdk.indexedDBUpdateCallback
    /\ ~sdk.indexedDBPartialUpdateCallback

C28_MinimalConfig ==
    (/\ outcome.op = "constructor"
     /\ outcome.config.baseUrl # ""
     /\ outcome.config.accessToken # ""
     /\ outcome.config.workspaceId = ""
     /\ outcome.config.extraMinifiedPatientFields = {})
        => /\ outcome.ok
           /\ sdk.constructed
           /\ sdk.groups = MethodGroups

\* C29: once the sync-complete flag is true it stays true across every step
\* that is not a clearing of the cache, in particular across
\* updateAccessToken.
C29_FlagOutlivesCalls ==
    [][(syncComplete /\ lastClear' = lastClear) => syncComplete']_vars

\* --------------------------------------------- claims: cache maintenance
\* C21: in every step, each object store keeps the identifiers it holds,
\* whatever the operation (sync batch, create, update, remote delete, ...),
\* unless the step is a clearData that succeeds on that store, which leaves
\* it empty.
C21_OnlyClearRemoves ==
    [][\A ws \in Workspaces :
          \/ DOMAIN Partition(ws) \subseteq DOMAIN Partition(ws)'
          \/ /\ last'.op = "clearData" /\ last'.ok /\ last'.ws = ws
             /\ Partition(ws)' = NoRecords]_vars

\* a remote delete of a cached patient returned and the record is still held
C21_Witness ==
    /\ outcome.op = "delete" /\ outcome.ok /\ outcome.had
    /\ outcome.oid \in DOMAIN Partition("w1")

CachedFields == {"mobile", "username", "fln", "fn", "mn", "ln"}

\* C23: a successful patients.update(id, data) with a cached field in data,
\* on an SDK whose local store is initialized and holds a record for id,
\* leaves that record with the new values of mobile, username and fln and
\* with its other fields as they were (a storage failure of the merge itself
\* set aside).
C23_UpdateMerges ==
    [][(/\ outcome.op = "none"
        /\ outcome'.op = "update"
        /\ outcome'.remote = "ok"
        /\ outcome'.had
        /\ outcome'.hook # "failed"
        /\ DOMAIN outcome'.data \cap CachedFields # {})
       => LET data == outcome'.data
              old == Partition("w1")[outcome'.oid]
              new == Partition("w1")'[outcome'.oid]
              direct == {"mobile", "username", "fln"} \cap DOMAIN data
              named == {"fn", "mn", "ln"} \cap DOMAIN data # {}
          IN  /\ \A f \in direct : f \in DOMAIN new /\ new[f] = data[f]
              /\ ("fln" \notin direct /\ named)
                    => "fln" \in DOMAIN new
                       /\ new["fln"] = Join(NameParts(data))
              /\ \A f \in DOMAIN old \ (direct \cup {"fln", "u_ate"}) :
                    f \in DOMAIN new /\ new[f] = old[f]]_vars

\* ------------------------------------------------- claims: search routing
\* C24: a search with forceRemote = true that passes the check of its prefix
\* queries the remote collaborator and does not read the local store,
\* whatever the sync state and the local-search configuration.
C24_ForceRemote ==
    (lastSearch.forceRemote /\ lastSearch.result \notin {"none", "required"})
        => /\ lastSearch.result = "remote"
           /\ lastSearch.remote
           /\ ~lastSearch.local

\* a forced remote search was served while the local store was eligible
C24_Witness ==
    /\ lastSearch.forceRemote
    /\ lastSearch.result = "remote"
    /\ enableLocalSearch /\ lastSearch.complete /\ db[0]

\* C25: a search that read the local store and got no result from it (the
\* lookup failed) queried the remote collaborator and returned its result;
\* the local failure is not what the caller gets.
C25_LocalFailureFallsBack ==
    (lastSearch.local /\ lastSearch.result # "local")
        => lastSearch.result = "remote" /\ lastSearch.remote

\* an eligible local search failed locally and was answered remotely
C25_Witness ==
    /\ lastSearch.local
    /\ lastSearch.result = "remote"
    /\ ~lastSearch.forceRemote /\ lastSearch.complete

\* ------------------------------------------- claims: background execution
\* C26: when the worker of a start fails to load, the start falls back to an
\* in-process run: in that step a run of the in-process loader begins, unless
\* one is active already.
C26_FallsBackInProcess ==
    [][\A r \in RunIds :
          (runs[r].pc = "posted" /\ runs'[r].pc = "loadFailed")
              => \/ \E q \in RunIds : /\ runs[q].pc = "none"
                                      /\ runs'[q].mode = "direct"
                 \/ DirectActive]_vars

\* ----------------------------------------------------- claims: termination
\* loadAllData of the run has passed its finally block
Ended(r) == runs[r].pc \in {"loadOk", "loadErr", "done"}

\* C30: every run that was started eventually ends, with complete, an error
\* or aborted, and with the loading flag of its loader released, given that
\* its fetchPage and batchStore calls return (the remote source is finite, so
\* a page shorter than the page size does come).
C30_RunsTerminate ==
    \A r \in RunIds :
        Active(runs[r]) ~> (Ended(r) /\ ~isLoading[runs[r].loader])

\* a run has ended after it fetched more than one page
C30_Witness ==
    \E r \in RunIds : /\ runs[r].pc = "done"
                      /\ Len(runs[r].fetches) > 1
                      /\ ~isLoading[runs[r].loader]

\* C31: a run that fails after it has started (a page fetch error, a storage
\* error or an abort) reports the failure through the caller's onError and
\* the startLocalSync / loadAllData call of that run does not reject
C31_FailureByCallback ==
    \A r \in RunIds :
        (runs[r].pc = "done" /\ runs[r].error # "") =>
            /\ runs[r].cb => HasEvent(runs[r], ErrorEvent(runs[r].error))
            /\ ~runs[r].rejected

\* the terminal notifications of a run: its onComplete and onError calls (in
\* the worker, its complete and error messages)
Terminals(run) ==
    SelectSeq(run.events, LAMBDA e : e.type \in {"complete", "error"})

\* C32: every run produces exactly one terminal notification, one completion
\* or one error, never both and never the same one twice, in-process and in
\* the worker
C32_OneTerminal ==
    \A r \in RunIds :
        runs[r].cb =>
            /\ Len(Terminals(runs[r])) <= 1
            /\ runs[r].pc = "done" => Len(Terminals(runs[r])) = 1

\* the step in which loadAllData of run e reaches its finally block
Ends(e) ==
    /\ runs[e].pc \in {"syncOk", "syncErr"}
    /\ runs'[e].pc \in {"loadOk", "loadErr"}

\* C33: once the runs of a loader have ended, its loading flag is false and
\* its cancellation token is cleared, so that the next start is accepted and
\* begins at page 1; and the flag and the token of a run that is still
\* executing are not changed by the ending of another run
C33_FlagFollowsRun ==
    /\ [](~DirectActive => ~isLoading[0] /\ abortController[0] = 0)
    /\ [][\A r, e \in RunIds :
            (/\ r # e
             /\ Executing(runs[r])
             /\ runs[e].loader = runs[r].loader
             /\ Ends(e)) =>
                /\ isLoading'[runs[r].loader] = isLoading[runs[r].loader]
                /\ abortController'[runs[r].loader] =
                      abortController[runs[r].loader]]_vars

\* C34: a stop issued when no run is active has no lasting effect: it
\* changes no stored record and cancels no token, and the run started next
\* is not cancelled by it, because a run checks only the token created at its
\* own start
C34_IdleStopHarmless ==
    /\ [][(~DirectActive /\ lastStart'.idleStop /\ runs' = runs
            /\ nextRun' = nextRun) =>
              /\ store' = store
              /\ aborted' = aborted
              /\ abortController' = abortController
              /\ ~isLoading'[0]]_vars
    /\ [](\A r \in RunIds :
            (runs[r].afterIdleStop /\ ~runs[r].stopped) =>
                /\ runs[r].error # AbortMsg
                /\ runs[r].pc # "none" => runs[r].fetches # <<>>)

\* a run started after a stop that found no run active, never stopped
\* itself, and completed
C34_Witness ==
    \E r \in RunIds :
        /\ runs[r].afterIdleStop
        /\ ~runs[r].stopped
        /\ runs[r].pc = "done"
        /\ runs[r].error = ""
        /\ runs[r].stores > 0

\* the identifiers a read of the loaders' object store finds
Stored == DOMAIN tables[SyncTable]
WholePages(ids) ==
    \A p \in 1..MaxRemote :
        PageIds(remote, p) \subseteq ids \/ PageIds(remote, p) \cap ids = {}

SameFields(loc, rem) ==
    \A f \in {"fln", "mobile", "username"} :
        /\ f \in DOMAIN loc <=> f \in DOMAIN rem
        /\ f \in DOMAIN rem => loc[f] = rem[f]

\* C38: after a run has completed successfully with no concurrent writer, the
\* store holds for every record of every fetched page a record with the same
\* identifier and the same name, phone and handle; and the run changes no
\* record other than those of the page it is storing, so that what was in
\* the store before and was not fetched is left as it was
C38_Ingested ==
    /\ [](\A r \in RunIds :
            (runs[r].pc \in {"loadOk", "done"} /\ runs[r].error = "") =>
                \A j \in 1..Len(runs[r].fetches) :
                    \A i \in PageIds(remote, runs[r].fetches[j]) :
                        /\ i \in Stored
                        /\ tables[SyncTable][i].oid = i
                        /\ SameFields(tables[SyncTable][i], RemoteRecord(i)))
    /\ [][\A k \in Stored :
            /\ k \in Stored'
            /\ \/ tables'[SyncTable][k] = tables[SyncTable][k]
               \/ \E r \in RunIds :
                     /\ runs[r].pc = "store"
                     /\ runs'[r] # runs[r]
                     /\ k \in PageIds(remote, runs[r].page)]_vars

\* a run that completed after storing two pages, over a store that held
\* before it a record the remote directory has and one it has not
C38_Witness ==
    \E r \in RunIds :
        /\ runs[r].pc = "done"
        /\ runs[r].error = ""
        /\ runs[r].stores >= 2
        /\ MaxRemote + 1 \in Stored
        /\ "u_ate" \notin DOMAIN tables[SyncTable][MaxRemote + 1]
        /\ "u_ate" \in DOMAIN tables[SyncTable][1]

\* C37: a successful patients.update on an SDK whose partial-update hook is
\* registered invokes the hook if and only if the update carries at least one
\* cached field; an update of one cached field alone invokes it also when
\* the update timestamp is not cached
C37_HookIffCachedField ==
    [][(/\ outcome.op = "none"
        /\ outcome'.op = "update"
        /\ outcome'.remote = "ok"
        /\ sdk.indexedDBPartialUpdateCallback)
       => (outcome'.hook \notin {"none", "skipped"}
             <=> DOMAIN outcome'.data \cap CachedFields # {})]_vars

\* the runs of worker w between the acceptance of their start message and
\* the end of startSync
RunningIn(w) ==
    { r \in RunIds : /\ runs[r].mode = "worker"
                     /\ runs[r].worker = w
                     /\ runs[r].pc \in {"init", "fetch", "store", "syncOk",
                                        "syncErr", "loadOk", "loadErr"} }

\* C35: in the worker, whatever the order of start and stop messages, there
\* are never two runs active at once, and the cleanup of a run that ends
\* closes and discards its own data loader only
C35_OwnLoaderOnly ==
    /\ [](\A w \in WorkerIds : Cardinality(RunningIn(w)) <= 1)
    /\ [][\A r \in RunIds :
            (/\ runs[r].mode = "worker"
             /\ runs[r].pc \in {"init", "loadOk", "loadErr"}
             /\ runs'[r].pc = "done") =>
                /\ \A l \in LoaderIds \ {r} : db'[l] = db[l]
                /\ dataLoader[runs[r].worker] # r =>
                      dataLoader'[runs[r].worker] =
                          dataLoader[runs[r].worker]]_vars

\* the progress reports a run has made
Reports(run) == SelectSeq(run.events, LAMBDA e : e.type = "progress")

\* C40: after destroy() nothing of a sync run happens any more: no fetchPage
\* call is issued, no record is written to the store, no progress is
\* reported and the sync-complete flag does not change
C40_NothingAfterDestroy ==
    [][sdk.destroyed =>
          /\ store' = store
          /\ tables' = tables
          /\ syncComplete' = syncComplete
          /\ \A r \in RunIds :
                /\ runs'[r].fetches = runs[r].fetches
                /\ Reports(runs'[r]) = Reports(runs[r])]_vars

\* what a writer leaves when it runs alone on the records t
Alone(t, tx) ==
    IF tx.op = "partialUpdatePatient"
    THEN IF tx.oid \in DOMAIN t
         THEN [k \in DOMAIN t |->
                 IF k = tx.oid
                 THEN [f \in DOMAIN t[k] \cup DOMAIN tx.upd \cup {"oid"} |->
                         IF f = "oid" THEN tx.oid
                         ELSE IF f \in DOMAIN tx.upd THEN tx.upd[f]
                         ELSE t[k][f]]
                 ELSE t[k]]
         ELSE t
    ELSE Transaction(t, tx.batch, TRUE).t

\* C36: partialUpdatePatient is an atomic read-modify-write: when it has run
\* together with a batchStore, an updatePatient or another
\* partialUpdatePatient, the records of the store are those that the two
\* writers leave when one runs after the other, in one of the two orders
C36_AtomicMerge ==
    (/\ Len(txs) = 2
     /\ \A i \in 1..2 : ~Live(txs[i])
     /\ \E i \in 1..2 : txs[i].op = "partialUpdatePatient")
    => LET base == txs[1].base
       IN  tables[GetStoreName("w1")] \in
              { Alone(Alone(base, txs[1]), txs[2]),
                Alone(Alone(base, txs[2]), txs[1]) }

\* a partialUpdatePatient and a batchStore of the same identifier, the second
\* called while the first was pending, whose two orders leave different
\* records
C36_Witness ==
    /\ Len(txs) = 2
    /\ \A i \in 1..2 : ~Live(txs[i])
    /\ txs[1].op = "partialUpdatePatient"
    /\ txs[1].got # <<>>
    /\ txs[2].op = "batchStore"
    /\ txs[2].overlap
    /\ \E j \in 1..Len(txs[2].batch) : txs[2].batch[j].oid = txs[1].oid
    /\ Alone(Alone(txs[1].base, txs[1]), txs[2])
          # Alone(Alone(txs[1].base, txs[2]), txs[1])

====
